---- MODULE Spec2Model ----
(***************************************************************************)
(* Model of the recursive proof-aggregation engine (ProofTree), the Merkle *)
(* accumulator (imt.ts) and the process-wide zero-hash cache.              *)
(*                                                                         *)
(* Field elements that are hash values are modelled as terms of a free     *)
(* algebra (a collision-free hash):                                        *)
(*   <<"Z", d>>     the all-zero subtree of depth d, <<"Z", 0>> = Fr.ZERO  *)
(*   <<"L", c>>     the leaf hash of ciphertext c (c the 17 hashed fields, *)
(*                  or a number that names them)                           *)
(*   <<"H", a, b>>  poseidon2Hash([a, b]) for any other pair               *)
(* A null reference to a list or an object is the empty sequence, a null   *)
(* reference to a string-like handle is the string "null".                 *)
(***************************************************************************)
EXTENDS Integers, Sequences, FiniteSets, TLC

VARIABLES
    notes,              \* config.notes: the ordered ciphertext list
    noteNoir,           \* ProofTree fields, lazily initialised
    noteBackend,
    summaryNoir,
    summaryBackend,
    addressSecret,
    zeroHashes,
    leafVkAsFields,     \* verification-key artifacts of the instance
    leafVkHash,
    summaryVkAsFields,
    summaryVkHash,
    run,                \* one record of locals per prove() invocation slot
    hist,               \* history of the instance (counters of external calls)
    cachedZeroHashes,   \* imt.ts module state
    cachedMaxDepth,
    zcall,              \* getZeroHashes invocations of other callers
    pcall,              \* one application of a pure library function
    tamper,             \* the leaf step on a ciphertext and on an altered copy
    dec,                \* one invocation of decryptNote
    aud                 \* one invocation of retrieveEncryptedNotes

initVars == <<noteNoir, noteBackend, summaryNoir, summaryBackend, addressSecret, zeroHashes>>
vkVars == <<leafVkAsFields, leafVkHash, summaryVkAsFields, summaryVkHash>>
cacheVars == <<cachedZeroHashes, cachedMaxDepth>>
treeVars == <<notes, initVars, vkVars, run, hist>>
libVars == <<pcall, tamper, dec, aud>>
vars == <<notes, initVars, vkVars, run, hist, cacheVars, zcall, libVars>>

----------------------------------------------------------------------------
(* Bounds of the model *)

MaxNotes == 5
MaxCt == 2
MaxRuns == 2
MaxSlots == 1
MaxDepth == 3
MaxZCalls == 2
MaxByte == 1
MaxOver == 1
MaxCts == 2
MaxPlainLen == 6
MaxOverlapNotes == 2
MaxSecrets == 2
MaxIndices == 3
MaxBatch == 2
MaxProofFields == 3
MaxCoord == 1

(* Program constants *)

INIT_ZERO_DEPTH == 20
TAG_LEN == 32
FIELD_LEN == 32
MESSAGE_CIPHERTEXT_LEN == 17
HEADER_END == 17
KEY_LEN == 16
KEY_INDEX_SHIFT == 256

NULL == "null"
Ciphertexts == 0 .. MaxCt
Slots == 1 .. MaxSlots
ZCalls == 1 .. MaxZCalls
Depths == 0 .. MaxDepth

----------------------------------------------------------------------------
(* imt.ts *)

FrZERO == <<"Z", 0>>

IsZeroTree(a) == Len(a) = 2 /\ a[1] = "Z"

\* poseidon2Hash([a, b]), collision-free
poseidon2Hash(a, b) ==
    IF IsZeroTree(a) /\ a = b THEN <<"Z", a[2] + 1>> ELSE <<"H", a, b>>

\* poseidon2HashWithSeparator over the 17 ciphertext fields of c
hashCiphertextToLeaf(c) == <<"L", c>>

RECURSIVE CeilLog2(_)
CeilLog2(n) == IF n <= 1 THEN 0 ELSE 1 + CeilLog2((n + 1) \div 2)

RECURSIVE Pow2(_)
Pow2(k) == IF k = 0 THEN 1 ELSE 2 * Pow2(k - 1)

\* faulty variant: the children of every pair are exchanged
HashPairs_Swapped(level) ==
    [k \in 1 .. (Len(level) \div 2) |-> poseidon2Hash(level[2 * k], level[2 * k - 1])]

\* one pass of the inner for loop of buildIMT: hash adjacent pairs
HashPairs(level) ==
    [k \in 1 .. (Len(level) \div 2) |-> poseidon2Hash(level[2 * k - 1], level[2 * k])]

RECURSIVE ReduceLevels(_)
ReduceLevels(level) ==
    IF Len(level) > 1 THEN ReduceLevels(HashPairs(level)) ELSE level[1]

buildIMT(leaves) ==
    IF Len(leaves) = 0 THEN FrZERO
    ELSE LET nextPow2 == Pow2(CeilLog2(Len(leaves)))
             paddedLeaves == [k \in 1 .. nextPow2 |->
                                 IF k <= Len(leaves) THEN leaves[k] ELSE FrZERO]
         IN  ReduceLevels(paddedLeaves)

buildIMTFromCiphertexts(cts) ==
    buildIMT([k \in 1 .. Len(cts) |-> hashCiphertextToLeaf(cts[k])])

\* the loop of computeZeroHashes after i - 1 iterations
RECURSIVE ZeroHashLoop(_, _, _)
ZeroHashLoop(zh, i, maxDepth) ==
    IF i <= maxDepth
    THEN ZeroHashLoop(Append(zh, poseidon2Hash(zh[i], zh[i])), i + 1, maxDepth)
    ELSE zh

computeZeroHashes(maxDepth) == ZeroHashLoop(<<FrZERO>>, 1, maxDepth)

\* Array.prototype.slice(0, n)
Slice(s, n) == SubSeq(s, 1, IF n < Len(s) THEN n ELSE Len(s))

\* faulty variant: a cache of exactly the requested depth is not used
CacheCovers_Strict(maxDepth) == cachedZeroHashes # <<>> /\ cachedMaxDepth > maxDepth

\* the synchronous test at the head of getZeroHashes
CacheCovers(maxDepth) == cachedZeroHashes # <<>> /\ cachedMaxDepth >= maxDepth

\* faulty variant: the slice stops one entry short
CacheSlice_OffByOne(maxDepth) == Slice(cachedZeroHashes, maxDepth)

CacheSlice(maxDepth) == Slice(cachedZeroHashes, maxDepth + 1)

----------------------------------------------------------------------------
(* getZeroHashes called by other users of the module.  A call is two steps:
   the synchronous head up to the first await, and the resumption once
   computeZeroHashes has resolved. *)

ZIdle == [pc |-> "idle", maxDepth |-> 0, computed |-> <<>>, ret |-> <<>>,
          fromCache |-> FALSE]

GetZeroHashesCall(k, d) ==
    /\ zcall[k].pc \in {"idle", "returned"}
    /\ IF CacheCovers(d)
       THEN zcall' = [zcall EXCEPT ![k] =
                [pc |-> "returned", maxDepth |-> d, computed |-> <<>>,
                 ret |-> CacheSlice(d), fromCache |-> TRUE]]
       ELSE zcall' = [zcall EXCEPT ![k] =
                [pc |-> "computing", maxDepth |-> d,
                 computed |-> computeZeroHashes(d), ret |-> <<>>,
                 fromCache |-> FALSE]]
    /\ UNCHANGED <<cacheVars, treeVars, libVars>>

GetZeroHashesResume(k) ==
    /\ zcall[k].pc = "computing"
    /\ cachedZeroHashes' = zcall[k].computed
    /\ cachedMaxDepth' = zcall[k].maxDepth
    /\ zcall' = [zcall EXCEPT ![k].pc = "returned", ![k].computed = <<>>,
                              ![k].ret = cachedZeroHashes']
    /\ UNCHANGED <<treeVars, libVars>>

----------------------------------------------------------------------------
(* External collaborators of the ProofTree *)

\* decryptNote seen from proveLeaves: null (here <<>>) or the plaintext
\* fields; ciphertext 0 stands for the ciphertexts that fail to decrypt
decryptNote(c) == IF c = 0 THEN <<>> ELSE <<c>>

\* the value the leaf circuit declares for a plaintext
NoteValue(plaintext) == plaintext[1]

LEAF_DECLARED_VKEY == "leafDeclaredVkey"

\* noteNoir.execute: the leaf circuit's return values [value, tree_leaf, vkey_hash]
NoteCircuit(inputs) ==
    <<NoteValue(inputs.plaintext), hashCiphertextToLeaf(inputs.ciphertext),
      LEAF_DECLARED_VKEY>>

\* summaryNoir.execute: the summary circuit's return values [sum, root, vkey_hash]
SummaryCircuit(inputs) ==
    <<inputs.public_inputs_left[1]
        + (IF inputs.public_inputs_right.is_some
           THEN inputs.public_inputs_right.value[1] ELSE 0),
      poseidon2Hash(inputs.public_inputs_left[2],
                    IF inputs.public_inputs_right.is_some
                    THEN inputs.public_inputs_right.value[2]
                    ELSE inputs.zero_leaf_hint.value),
      inputs.summary_vkey_hash>>

\* backend.generateRecursiveProofArtifacts(proof, 3): a function of the circuit
\* the proof belongs to
RecursiveArtifacts(proof) ==
    IF proof.circuit = "note"
    THEN [vkAsFields |-> "vk(individual_note)", vkHash |-> "vkHash(individual_note)"]
    ELSE [vkAsFields |-> "vk(note_summary_tree)", vkHash |-> "vkHash(note_summary_tree)"]

\* backend.generateProof: the proof of a witness; valid tells what verifyProof
\* will answer for it
NewProof(circuit, out, svk, valid, throwaway) ==
    [circuit |-> circuit, out |-> out, svk |-> svk, valid |-> valid,
     verified |-> FALSE, throwaway |-> throwaway]

----------------------------------------------------------------------------
(* ProofTree: pure parts *)

PLACEHOLDER == "0x0"
emptyPublicInputs == <<0, FrZERO, PLACEHOLDER>>
emptyProof == [circuit |-> "none", out |-> emptyPublicInputs, svk |-> PLACEHOLDER,
               valid |-> FALSE, verified |-> FALSE, throwaway |-> FALSE]

prepareNoteCircuitInputs(plaintext, ciphertext) ==
    [plaintext |-> plaintext, ciphertext |-> ciphertext, ivsk_app |-> addressSecret]

\* the verification-key fields of the instance, as one record
CurVk == [laf |-> leafVkAsFields, lh |-> leafVkHash,
          saf |-> summaryVkAsFields, sh |-> summaryVkHash]

SetVk(vk) ==
    /\ leafVkAsFields' = vk.laf
    /\ leafVkHash' = vk.lh
    /\ summaryVkAsFields' = vk.saf
    /\ summaryVkHash' = vk.sh

RunIdle ==
    [pc |-> "idle", i |-> 0, level |-> 0,
     proofs |-> <<>>, currentLevel |-> <<>>, nextLevel |-> <<>>,
     circuitInputs |-> <<>>, returnValue |-> <<>>, proof |-> <<>>,
     vkAsFields |-> NULL, vkHash |-> NULL,
     throwawayInputs |-> <<>>, summaryInputs |-> <<>>,
     zhComputed |-> <<>>, zhRet |-> <<>>,
     result |-> <<>>, error |-> "", errorAt |-> 0,
     decryptCalls |-> 0, leafProofs |-> 0, summaryExecs |-> 0, bootAt |-> <<>>]

Throw(rec, kind) ==
    [rec EXCEPT !.pc = "error", !.error = kind, !.errorAt = rec.i,
                !.circuitInputs = <<>>, !.returnValue = <<>>, !.proof = <<>>]

\* faulty variant: the zero leaf of the leaf level is used at every level
zeroLeafForLevel_Depth0(level) == zeroHashes[1]

\* combineProofs, lines 251-255: the zero leaf of the level being combined
zeroLeafForLevel(level) == zeroHashes[level + 1]

\* faulty variant: the hash is read before the bootstrap has stored it
SummaryVkeyHashInput_Stale(vk) ==
    IF summaryVkHash = NULL THEN PLACEHOLDER ELSE summaryVkHash

\* combineProofs, line 281: this.summaryVkHash as read when the inputs are built
SummaryVkeyHashInput(vk) == vk.sh

\* combineProofs, lines 264-282
BuildSummaryInputs(left, right, level, vkAsFields, vkHash, svk) ==
    LET hasRight == right # <<>> IN
    [verification_key |-> vkAsFields,
     vkey_hash |-> vkHash,
     proof_left |-> left.proof,
     proof_right |-> [is_some |-> hasRight,
                      value |-> IF hasRight THEN right[1].proof ELSE emptyProof],
     public_inputs_left |-> left.publicInputs,
     public_inputs_right |-> [is_some |-> hasRight,
                              value |-> IF hasRight THEN right[1].publicInputs
                                        ELSE emptyPublicInputs],
     zero_leaf_hint |-> [is_some |-> ~hasRight,
                         value |-> IF hasRight THEN FrZERO ELSE zeroLeafForLevel(level)],
     summary_vkey_hash |-> svk]

\* precomputeSummaryVkHash, lines 379-401
BuildThrowawayInputs(sampleProof, vkAsFields, vkHash) ==
    [verification_key |-> vkAsFields,
     vkey_hash |-> vkHash,
     proof_left |-> sampleProof.proof,
     proof_right |-> [is_some |-> FALSE, value |-> emptyProof],
     public_inputs_left |-> sampleProof.publicInputs,
     public_inputs_right |-> [is_some |-> FALSE, value |-> emptyPublicInputs],
     zero_leaf_hint |-> [is_some |-> TRUE, value |-> zeroHashes[1]],
     summary_vkey_hash |-> PLACEHOLDER]

\* buildTree, lines 210-211
LeftOf(rec) == rec.currentLevel[rec.i + 1]
\* faulty variant: the bound of the right index is off by one
RightOf_OffByOne(rec) ==
    IF rec.i + 2 < Len(rec.currentLevel) THEN <<rec.currentLevel[rec.i + 2]>> ELSE <<>>

RightOf(rec) ==
    IF rec.i + 1 < Len(rec.currentLevel) THEN <<rec.currentLevel[rec.i + 2]>> ELSE <<>>

\* combineProofs from its entry to its first await (lines 234-285)
BeginCombine(rec, vk) ==
    LET isLeafLevel == rec.level = 0
        vkAsFields == IF isLeafLevel THEN vk.laf ELSE vk.saf
        vkHash == IF isLeafLevel THEN vk.lh ELSE vk.sh
    IN  IF ~isLeafLevel /\ vk.saf = NULL
        THEN Throw(rec, "MissingSummaryKey")
        ELSE IF zeroHashes = <<>>
        THEN \* line 255 reads this.zeroHashes![level] before the table exists
             Throw(rec, "TypeError")
        ELSE IF vk.sh = NULL
        THEN [rec EXCEPT !.pc = "boot_exec",
                         !.vkAsFields = vkAsFields, !.vkHash = vkHash,
                         !.bootAt = <<rec.level, rec.i>>,
                         !.throwawayInputs =
                             <<BuildThrowawayInputs(LeftOf(rec), vkAsFields, vkHash)>>]
        ELSE [rec EXCEPT !.pc = "sum_exec",
                         !.vkAsFields = vkAsFields, !.vkHash = vkHash,
                         !.summaryInputs =
                             <<BuildSummaryInputs(LeftOf(rec), RightOf(rec), rec.level,
                                                  vkAsFields, vkHash,
                                                  SummaryVkeyHashInput(vk))>>]

\* faulty variant: an empty level returns the zero root and the sum 0
Return_EmptyAsZero(rec) ==
    IF Len(rec.currentLevel) = 0
    THEN [rec EXCEPT !.pc = "done",
                     !.result = <<[proof |-> <<>>,
                                   publicInputs |-> [sum |-> 0, root |-> FrZERO,
                                                     vkeyHash |-> NULL]]>>]
    ELSE LET finalProof == rec.currentLevel[1] IN
         [rec EXCEPT !.pc = "done",
                     !.result = <<[proof |-> finalProof.proof,
                                   publicInputs |-> [sum |-> finalProof.publicInputs[1],
                                                     root |-> finalProof.publicInputs[2],
                                                     vkeyHash |-> finalProof.publicInputs[3]]]>>]

\* prove, lines 96-106, reached when buildTree returns currentLevel[0]
Return(rec) ==
    IF Len(rec.currentLevel) = 0
    THEN Throw(rec, "TypeError")
    ELSE LET finalProof == rec.currentLevel[1] IN
         [rec EXCEPT !.pc = "done",
                     !.result = <<[proof |-> finalProof.proof,
                                   publicInputs |-> [sum |-> finalProof.publicInputs[1],
                                                     root |-> finalProof.publicInputs[2],
                                                     vkeyHash |-> finalProof.publicInputs[3]]]>>]

\* faulty variant: the loop stops when two artifacts are left
WhileLevel_StopAtTwo(rec, vk) ==
    IF Len(rec.currentLevel) > 2
    THEN BeginCombine([rec EXCEPT !.nextLevel = <<>>, !.i = 0], vk)
    ELSE Return(rec)

\* faulty variant: a single leaf is combined once with an absent right child
WhileLevel_CombineSingle(rec, vk) ==
    IF Len(rec.currentLevel) > 1 \/ (Len(rec.currentLevel) = 1 /\ rec.level = 0)
    THEN BeginCombine([rec EXCEPT !.nextLevel = <<>>, !.i = 0], vk)
    ELSE Return(rec)

\* buildTree, the head of the while loop (line 204)
WhileLevel(rec, vk) ==
    IF Len(rec.currentLevel) > 1
    THEN BeginCombine([rec EXCEPT !.nextLevel = <<>>, !.i = 0], vk)
    ELSE Return(rec)

\* faulty variant: the level counter is not advanced at the end of a pass
NextPair_SameLevel(rec, vk) ==
    IF rec.i < Len(rec.currentLevel)
    THEN BeginCombine(rec, vk)
    ELSE WhileLevel([rec EXCEPT !.currentLevel = rec.nextLevel, !.nextLevel = <<>>], vk)

\* buildTree, the head of the for loop (line 209) and the end of a level
NextPair(rec, vk) ==
    IF rec.i < Len(rec.currentLevel)
    THEN BeginCombine(rec, vk)
    ELSE WhileLevel([rec EXCEPT !.currentLevel = rec.nextLevel, !.nextLevel = <<>>,
                                !.level = rec.level + 1], vk)

\* proveLeaves, the head of the for loop (line 144), then buildTree
NextLeaf(rec, vk) ==
    IF rec.i < Len(notes)
    THEN [rec EXCEPT !.pc = "decrypt"]
    ELSE WhileLevel([rec EXCEPT !.currentLevel = rec.proofs, !.proofs = <<>>,
                                !.level = 0], vk)

\* faulty variant: the newest leaf artifact is put in front of the list
PushLeaf_Prepend(rec, vk) ==
    LET artifact == [proof |-> rec.proof[1],
                     publicInputs |-> rec.returnValue,
                     value |-> rec.returnValue[1]]
    IN  NextLeaf([rec EXCEPT !.proofs = <<artifact>> \o rec.proofs,
                             !.i = rec.i + 1,
                             !.circuitInputs = <<>>, !.returnValue = <<>>,
                             !.proof = <<>>], vk)

\* proveLeaves, lines 180-191
PushLeaf(rec, vk) ==
    LET artifact == [proof |-> rec.proof[1],
                     publicInputs |-> rec.returnValue,
                     value |-> rec.returnValue[1]]
    IN  NextLeaf([rec EXCEPT !.proofs = Append(rec.proofs, artifact),
                             !.i = rec.i + 1,
                             !.circuitInputs = <<>>, !.returnValue = <<>>,
                             !.proof = <<>>], vk)

\* faulty variant: the value of the right child is not added
PushCombined_LeftOnly(rec, vk) ==
    LET left == LeftOf(rec)
        combined == [proof |-> rec.proof[1],
                     publicInputs |-> rec.returnValue,
                     value |-> left.value]
    IN  NextPair([rec EXCEPT !.nextLevel = Append(rec.nextLevel, combined),
                             !.i = rec.i + 2,
                             !.summaryInputs = <<>>, !.returnValue = <<>>,
                             !.proof = <<>>, !.vkAsFields = NULL, !.vkHash = NULL], vk)

\* combineProofs, lines 302-313, and buildTree, lines 216 and 209
PushCombined(rec, vk) ==
    LET left == LeftOf(rec)
        right == RightOf(rec)
        combinedValue == left.value + (IF right # <<>> THEN right[1].value ELSE 0)
        combined == [proof |-> rec.proof[1],
                     publicInputs |-> rec.returnValue,
                     value |-> combinedValue]
    IN  NextPair([rec EXCEPT !.nextLevel = Append(rec.nextLevel, combined),
                             !.i = rec.i + 2,
                             !.summaryInputs = <<>>, !.returnValue = <<>>,
                             !.proof = <<>>, !.vkAsFields = NULL, !.vkHash = NULL], vk)

----------------------------------------------------------------------------
(* ProofTree: one action per resumption of prove(); run[r].pc names the
   await the invocation is suspended at. *)

Active(r) == run[r].pc \notin {"idle", "done", "error"}

\* the leaf-level and summary-level steps write the run record and the history
Step(r, rec, h) ==
    /\ run' = [run EXCEPT ![r] = rec]
    /\ hist' = h

\* the return of prove: the history records the cached summary key hash
Finish(h, rec, vk) ==
    IF rec.pc = "done" THEN [h EXCEPT !.doneHashes = Append(@, vk.sh)] ELSE h

\* faulty variant: initialize does not look at what is already populated
ProveCallAt_Reinit(r) ==
    /\ ~Active(r)
    /\ \A q \in Slots : q < r => Active(q)
    /\ hist.runsStarted < MaxRuns
    /\ run' = [run EXCEPT ![r] = [RunIdle EXCEPT !.pc = "init_note"]]
    /\ noteNoir' = "Noir(noteCircuit)"
    /\ hist' = [hist EXCEPT !.runsStarted = @ + 1]
    /\ UNCHANGED <<notes, noteBackend, summaryNoir, summaryBackend, addressSecret,
                   zeroHashes, vkVars, cacheVars, zcall, libVars>>

\* prove() is called (line 83): initialize runs up to its first await
ProveCallAt(r) ==
    /\ ~Active(r)
    /\ \A q \in Slots : q < r => Active(q)
    /\ hist.runsStarted < MaxRuns
    /\ IF noteNoir # NULL
       THEN /\ run' = [run EXCEPT ![r] = [RunIdle EXCEPT !.pc = "init_return"]]
            /\ UNCHANGED noteNoir
       ELSE /\ run' = [run EXCEPT ![r] = [RunIdle EXCEPT !.pc = "init_note"]]
            /\ noteNoir' = "Noir(noteCircuit)"
    /\ hist' = [hist EXCEPT !.runsStarted = @ + 1]
    /\ UNCHANGED <<notes, noteBackend, summaryNoir, summaryBackend, addressSecret,
                   zeroHashes, vkVars, cacheVars, zcall, libVars>>

\* initialize, lines 119-121
InitNoteResume(r) ==
    /\ run[r].pc = "init_note"
    /\ summaryNoir' = "Noir(summaryCircuit)"
    /\ run' = [run EXCEPT ![r].pc = "init_summary"]
    /\ UNCHANGED <<notes, noteNoir, noteBackend, summaryBackend, addressSecret,
                   zeroHashes, vkVars, hist, cacheVars, zcall, libVars>>

\* initialize, lines 122-129
InitSummaryResume(r) ==
    /\ run[r].pc = "init_summary"
    /\ noteBackend' = "UltraHonkBackend(noteCircuit)"
    /\ summaryBackend' = "UltraHonkBackend(summaryCircuit)"
    /\ run' = [run EXCEPT ![r].pc = "init_preaddress"]
    /\ UNCHANGED <<notes, noteNoir, summaryNoir, addressSecret,
                   zeroHashes, vkVars, hist, cacheVars, zcall, libVars>>

\* initialize, lines 129-130
InitPreaddressResume(r) ==
    /\ run[r].pc = "init_preaddress"
    /\ run' = [run EXCEPT ![r].pc = "init_secret"]
    /\ UNCHANGED <<notes, initVars, vkVars, hist, cacheVars, zcall, libVars>>

\* initialize, lines 130-133: the address secret is stored and
\* getZeroHashes(20) runs up to its await (imt.ts lines 103-107)
InitSecretResume(r) ==
    /\ run[r].pc = "init_secret"
    /\ addressSecret' = "addressSecret"
    /\ IF CacheCovers(INIT_ZERO_DEPTH)
       THEN run' = [run EXCEPT ![r].pc = "init_zero",
                               ![r].zhRet = CacheSlice(INIT_ZERO_DEPTH)]
       ELSE run' = [run EXCEPT ![r].pc = "init_zero",
                               ![r].zhComputed = computeZeroHashes(INIT_ZERO_DEPTH)]
    /\ UNCHANGED <<notes, noteNoir, noteBackend, summaryNoir, summaryBackend,
                   zeroHashes, vkVars, hist, cacheVars, zcall, libVars>>

\* getZeroHashes resumes (imt.ts lines 107-109), initialize stores the table
\* (line 133) and returns, prove calls proveLeaves (line 89)
InitZeroResume(r) ==
    /\ run[r].pc = "init_zero"
    /\ IF run[r].zhComputed # <<>>
       THEN /\ cachedZeroHashes' = run[r].zhComputed
            /\ cachedMaxDepth' = INIT_ZERO_DEPTH
            /\ zeroHashes' = cachedZeroHashes'
       ELSE /\ UNCHANGED cacheVars
            /\ zeroHashes' = run[r].zhRet
    /\ run' = [run EXCEPT ![r] =
                 NextLeaf([run[r] EXCEPT !.zhComputed = <<>>, !.zhRet = <<>>], CurVk)]
    /\ UNCHANGED <<notes, noteNoir, noteBackend, summaryNoir, summaryBackend,
                   addressSecret, vkVars, hist, zcall, libVars>>

\* initialize returned at line 113; prove calls proveLeaves (line 89)
InitReturnResume(r) ==
    /\ run[r].pc = "init_return"
    /\ run' = [run EXCEPT ![r] = NextLeaf(run[r], CurVk)]
    /\ UNCHANGED <<notes, initVars, vkVars, hist, cacheVars, zcall, libVars>>

\* proveLeaves, lines 149-162: decryptNote has resolved
\* faulty variant: a note that fails to decrypt is skipped
AfterDecrypt_Skip(rec, plaintext) ==
    IF plaintext = <<>>
    THEN NextLeaf([rec EXCEPT !.i = rec.i + 1], CurVk)
    ELSE [rec EXCEPT !.pc = "leaf_exec",
                     !.circuitInputs =
                         <<prepareNoteCircuitInputs(plaintext, notes[rec.i + 1])>>]

\* (line 349 reads this.addressSecret!.toString(): a TypeError while the
\* initialization of another invocation has not stored the secret yet)
AfterDecrypt(rec, plaintext) ==
    IF plaintext = <<>>
    THEN Throw(rec, "DecryptionFailure")
    ELSE IF addressSecret = NULL
    THEN Throw(rec, "TypeError")
    ELSE [rec EXCEPT !.pc = "leaf_exec",
                     !.circuitInputs =
                         <<prepareNoteCircuitInputs(plaintext, notes[rec.i + 1])>>]

DecryptResume(r) ==
    /\ run[r].pc = "decrypt"
    /\ run' = [run EXCEPT ![r] =
                 AfterDecrypt([run[r] EXCEPT !.decryptCalls = @ + 1],
                              decryptNote(notes[run[r].i + 1]))]
    /\ UNCHANGED <<notes, initVars, vkVars, hist, cacheVars, zcall, libVars>>

\* proveLeaves, lines 162-166: the leaf circuit has executed
LeafExecResume(r) ==
    /\ run[r].pc = "leaf_exec"
    /\ run' = [run EXCEPT ![r].pc = "leaf_prove",
                          ![r].returnValue = NoteCircuit(run[r].circuitInputs[1])]
    /\ UNCHANGED <<notes, initVars, vkVars, hist, cacheVars, zcall, libVars>>

\* proveLeaves, lines 166-167: the leaf proof has been generated
LeafProveResume(r) ==
    /\ run[r].pc = "leaf_prove"
    /\ \E valid \in BOOLEAN :
         run' = [run EXCEPT ![r].pc = "leaf_verify",
                            ![r].leafProofs = @ + 1,
                            ![r].proof = <<NewProof("note", run[r].returnValue,
                                                    PLACEHOLDER, valid, FALSE)>>]
    /\ UNCHANGED <<notes, initVars, vkVars, hist, cacheVars, zcall, libVars>>

\* faulty variant: the artifacts are extracted for every leaf
AfterLeafVerify_AlwaysExtract(rec, isValid, vk) ==
    IF ~isValid
    THEN Throw(rec, "InvalidLeafProof")
    ELSE [rec EXCEPT !.pc = "leaf_vk",
                     !.proof = <<[rec.proof[1] EXCEPT !.verified = TRUE]>>]

\* faulty variant: the first leaf of every run extracts the artifacts again
AfterLeafVerify_ExtractPerRun(rec, isValid, vk) ==
    IF ~isValid
    THEN Throw(rec, "InvalidLeafProof")
    ELSE LET ok == [rec EXCEPT !.proof = <<[rec.proof[1] EXCEPT !.verified = TRUE]>>] IN
         IF rec.i = 0
         THEN [ok EXCEPT !.pc = "leaf_vk"]
         ELSE PushLeaf(ok, vk)

\* proveLeaves, lines 167-177: verifyProof has answered
AfterLeafVerify(rec, isValid, vk) ==
    IF ~isValid
    THEN Throw(rec, "InvalidLeafProof")
    ELSE LET ok == [rec EXCEPT !.proof = <<[rec.proof[1] EXCEPT !.verified = TRUE]>>] IN
         IF vk.laf = NULL
         THEN [ok EXCEPT !.pc = "leaf_vk"]
         ELSE PushLeaf(ok, vk)

LeafVerifyResume(r) ==
    /\ run[r].pc = "leaf_verify"
    /\ LET rec == AfterLeafVerify(run[r], run[r].proof[1].valid, CurVk) IN
         Step(r, rec, Finish(hist, rec, CurVk))
    /\ UNCHANGED <<notes, initVars, vkVars, cacheVars, zcall, libVars>>

\* faulty variant: only the hash of the leaf key is stored
StoreLeafVk_HashOnly(vk, artifacts) == [vk EXCEPT !.lh = artifacts.vkHash]

StoreLeafVk(vk, artifacts) == [vk EXCEPT !.laf = artifacts.vkAsFields,
                                         !.lh = artifacts.vkHash]

\* faulty variant: only the fields of the summary key are stored
StoreSummaryVk_FieldsOnly(vk, artifacts) == [vk EXCEPT !.saf = artifacts.vkAsFields]

StoreSummaryVk(vk, artifacts) == [vk EXCEPT !.saf = artifacts.vkAsFields,
                                            !.sh = artifacts.vkHash]

\* generateRecursiveProofArtifacts has resolved in proveLeaves (lines 174-191)
\* or in combineProofs (lines 297-313): the verification key is stored and the
\* artifact is pushed
AfterArtifacts(rec, vk) ==
    IF rec.pc = "leaf_vk" THEN PushLeaf(rec, vk) ELSE PushCombined(rec, vk)

ArtifactsResume(r) ==
    /\ run[r].pc \in {"leaf_vk", "sum_vk"}
    /\ LET artifacts == RecursiveArtifacts(run[r].proof[1])
           vk == IF run[r].pc = "leaf_vk"
                 THEN StoreLeafVk(CurVk, artifacts)
                 ELSE StoreSummaryVk(CurVk, artifacts)
           rec == AfterArtifacts(run[r], vk)
           h == IF run[r].pc = "leaf_vk"
                THEN [hist EXCEPT !.leafVkFrom = Append(@, run[r].i)]
                ELSE [hist EXCEPT !.summaryVkFrom = Append(@, "real")]
       IN  /\ SetVk(vk)
           /\ Step(r, rec, Finish(h, rec, vk))
    /\ UNCHANGED <<notes, initVars, cacheVars, zcall, libVars>>

\* precomputeSummaryVkHash, lines 404-405: the throwaway execution is done
BootExecResume(r) ==
    /\ run[r].pc = "boot_exec"
    /\ run' = [run EXCEPT ![r].pc = "boot_prove", ![r].summaryExecs = @ + 1,
                          ![r].returnValue = SummaryCircuit(run[r].throwawayInputs[1])]
    /\ UNCHANGED <<notes, initVars, vkVars, hist, cacheVars, zcall, libVars>>

\* precomputeSummaryVkHash, lines 405-408: the throwaway proof exists
BootProveResume(r) ==
    /\ run[r].pc = "boot_prove"
    /\ \E valid \in BOOLEAN :
         run' = [run EXCEPT ![r].pc = "boot_vk",
                            ![r].proof = <<NewProof("summary", run[r].returnValue,
                                                    PLACEHOLDER, valid, TRUE)>>]
    /\ hist' = [hist EXCEPT !.bootstraps = @ + 1]
    /\ UNCHANGED <<notes, initVars, vkVars, cacheVars, zcall, libVars>>

\* precomputeSummaryVkHash, lines 408-410, then combineProofs, lines 264-285
\* faulty variant: the throwaway proof is kept as the proof of the pair
AfterBootstrap_Reuse(rec, vk) ==
    PushCombined([rec EXCEPT !.throwawayInputs = <<>>,
                             !.proof = <<[rec.proof[1] EXCEPT !.verified = TRUE]>>], vk)

\* faulty variant: the combination after the bootstrap is given the summary
\* key that the bootstrap has just cached
AfterBootstrap_SummaryKey(rec, vk) ==
    [rec EXCEPT !.pc = "sum_exec",
                !.throwawayInputs = <<>>, !.returnValue = <<>>, !.proof = <<>>,
                !.summaryInputs =
                    <<BuildSummaryInputs(LeftOf(rec), RightOf(rec), rec.level,
                                         vk.saf, vk.sh,
                                         SummaryVkeyHashInput(vk))>>]

AfterBootstrap(rec, vk) ==
    [rec EXCEPT !.pc = "sum_exec",
                !.throwawayInputs = <<>>, !.returnValue = <<>>, !.proof = <<>>,
                !.summaryInputs =
                    <<BuildSummaryInputs(LeftOf(rec), RightOf(rec), rec.level,
                                         rec.vkAsFields, rec.vkHash,
                                         SummaryVkeyHashInput(vk))>>]

BootVkResume(r) ==
    /\ run[r].pc = "boot_vk"
    /\ LET vk == StoreSummaryVk(CurVk, RecursiveArtifacts(run[r].proof[1])) IN
         /\ SetVk(vk)
         /\ Step(r, AfterBootstrap(run[r], vk),
                 [hist EXCEPT !.summaryVkFrom = Append(@, "throwaway")])
    /\ UNCHANGED <<notes, initVars, cacheVars, zcall, libVars>>

\* combineProofs, lines 285-289: the summary circuit has executed
SumExecResume(r) ==
    /\ run[r].pc = "sum_exec"
    /\ run' = [run EXCEPT ![r].pc = "sum_prove", ![r].summaryExecs = @ + 1,
                          ![r].returnValue = SummaryCircuit(run[r].summaryInputs[1])]
    /\ UNCHANGED <<notes, initVars, vkVars, hist, cacheVars, zcall, libVars>>

\* combineProofs, lines 289-290: the summary proof has been generated
SumProveResume(r) ==
    /\ run[r].pc = "sum_prove"
    /\ \E valid \in BOOLEAN :
         run' = [run EXCEPT ![r].pc = "sum_verify",
                            ![r].proof = <<NewProof("summary", run[r].returnValue,
                                                    run[r].summaryInputs[1].summary_vkey_hash,
                                                    valid, FALSE)>>]
    /\ UNCHANGED <<notes, initVars, vkVars, hist, cacheVars, zcall, libVars>>

\* faulty variant: the answer of verifyProof is not looked at
AfterSumVerify_Unchecked(rec, isValid, vk) ==
    LET ok == [rec EXCEPT !.proof = <<[rec.proof[1] EXCEPT !.verified = TRUE]>>] IN
    IF vk.saf = NULL
    THEN [ok EXCEPT !.pc = "sum_vk"]
    ELSE PushCombined(ok, vk)

\* combineProofs, lines 290-300: verifyProof has answered
AfterSumVerify(rec, isValid, vk) ==
    IF ~isValid
    THEN Throw(rec, "InvalidSummaryProof")
    ELSE LET ok == [rec EXCEPT !.proof = <<[rec.proof[1] EXCEPT !.verified = TRUE]>>] IN
         IF vk.saf = NULL
         THEN [ok EXCEPT !.pc = "sum_vk"]
         ELSE PushCombined(ok, vk)

SumVerifyResume(r) ==
    /\ run[r].pc = "sum_verify"
    /\ LET rec == AfterSumVerify(run[r], run[r].proof[1].valid, CurVk) IN
         Step(r, rec, Finish(hist, rec, CurVk))
    /\ UNCHANGED <<notes, initVars, vkVars, cacheVars, zcall, libVars>>

\* prove() called while no other invocation on the instance is outstanding
ProveCall(r) ==
    /\ \A q \in Slots : ~Active(q)
    /\ ProveCallAt(r)

----------------------------------------------------------------------------
(* Specifications *)

\* no library function is being applied on its own
PIdle == [pc |-> "idle", fn |-> "", arg |-> <<>>, ret |-> <<>>]

TIdle == [pc |-> "idle", ciphertext |-> <<>>, altered |-> <<>>, pos |-> 0,
          leaf |-> <<>>, leafAltered |-> <<>>]

\* the result of decryptNote: null, or the list of fields
NullResult == [isNull |-> TRUE, fields |-> <<>>]

DIdle == [pc |-> "idle", encryptedLog |-> <<>>, restBytes |-> <<>>,
          headerCiphertext |-> <<>>, headerPlaintext |-> <<>>,
          ciphertextLength |-> 0, bodyCiphertext |-> <<>>, bodyPlaintext |-> <<>>,
          ret |-> NullResult, calls |-> <<>>, failedAt |-> "none"]

\* no retrieval has been asked for
AIdle == [pc |-> "idle", secrets |-> <<>>,
          startIndex |-> 0, maxIndices |-> 0, batchSize |-> 0,
          inboundSecrets |-> <<>>, k |-> 0,
          index |-> 0, count |-> 0, tags |-> <<>>, logsPerTag |-> <<>>, i |-> 0,
          notes |-> <<>>, results |-> <<>>,
          tagCalls |-> <<>>, queries |-> <<>>, answers |-> <<>>]

LibInit == pcall = PIdle /\ tamper = TIdle /\ dec = DIdle /\ aud = AIdle

HistInit == [runsStarted |-> 0, bootstraps |-> 0, leafVkFrom |-> <<>>,
             summaryVkFrom |-> <<>>, doneHashes |-> <<>>]

\* the batches: every ciphertext list of at most MaxNotes notes
RECURSIVE SeqsUpTo(_, _)
SeqsUpTo(S, n) ==
    IF n = 0 THEN {<<>>}
    ELSE LET shorter == SeqsUpTo(S, n - 1) IN
         shorter \cup {Append(q, x) : q \in {p \in shorter : Len(p) = n - 1}, x \in S}

Batches == SeqsUpTo(Ciphertexts, MaxNotes)

TreeInit ==
    /\ noteNoir = NULL /\ noteBackend = NULL
    /\ summaryNoir = NULL /\ summaryBackend = NULL
    /\ addressSecret = NULL /\ zeroHashes = <<>>
    /\ leafVkAsFields = NULL /\ leafVkHash = NULL
    /\ summaryVkAsFields = NULL /\ summaryVkHash = NULL
    /\ run = [r \in Slots |-> RunIdle]
    /\ hist = HistInit

\* a new ProofTree; the module's zero-hash cache is empty or was filled by an
\* earlier user of the module beyond the depth initialize asks for
Init ==
    /\ notes \in Batches
    /\ TreeInit
    /\ \/ cachedZeroHashes = <<>> /\ cachedMaxDepth = 0
       \/ /\ cachedZeroHashes = computeZeroHashes(INIT_ZERO_DEPTH + 1)
          /\ cachedMaxDepth = INIT_ZERO_DEPTH + 1
    /\ zcall = [k \in ZCalls |-> ZIdle]
    /\ LibInit

Next ==
    \E r \in Slots :
        \/ ProveCall(r)
        \/ InitNoteResume(r)
        \/ InitSummaryResume(r)
        \/ InitPreaddressResume(r)
        \/ InitSecretResume(r)
        \/ InitZeroResume(r)
        \/ InitReturnResume(r)
        \/ DecryptResume(r)
        \/ LeafExecResume(r)
        \/ LeafProveResume(r)
        \/ LeafVerifyResume(r)
        \/ ArtifactsResume(r)
        \/ BootExecResume(r)
        \/ BootProveResume(r)
        \/ BootVkResume(r)
        \/ SumExecResume(r)
        \/ SumProveResume(r)
        \/ SumVerifyResume(r)

Spec == Init /\ [][Next]_vars

\* the same runs in a process whose imt.ts cache is empty at the start, as
\* it is when nothing else has asked for zero hashes
InitColdCache ==
    /\ notes \in Batches
    /\ TreeInit
    /\ cachedZeroHashes = <<>> /\ cachedMaxDepth = 0
    /\ zcall = [k \in ZCalls |-> ZIdle]
    /\ LibInit

SpecColdCache == InitColdCache /\ [][Next]_vars

----------------------------------------------------------------------------
(* prove() invoked again on the instance while earlier invocations are still
   suspended: every resumption of every invocation may be the next step *)

OverlapSlots == 1 .. (MaxSlots + 1)

OverlapBatches == SeqsUpTo(Ciphertexts, MaxOverlapNotes)

InitOverlap ==
    /\ notes \in OverlapBatches
    /\ noteNoir = NULL /\ noteBackend = NULL
    /\ summaryNoir = NULL /\ summaryBackend = NULL
    /\ addressSecret = NULL /\ zeroHashes = <<>>
    /\ leafVkAsFields = NULL /\ leafVkHash = NULL
    /\ summaryVkAsFields = NULL /\ summaryVkHash = NULL
    /\ run = [r \in OverlapSlots |-> RunIdle]
    /\ hist = HistInit
    /\ cachedZeroHashes = <<>> /\ cachedMaxDepth = 0
    /\ zcall = [k \in ZCalls |-> ZIdle]
    /\ LibInit

NextOverlap ==
    \E r \in OverlapSlots :
        \/ ProveCallAt(r)
        \/ InitNoteResume(r)
        \/ InitSummaryResume(r)
        \/ InitPreaddressResume(r)
        \/ InitSecretResume(r)
        \/ InitZeroResume(r)
        \/ InitReturnResume(r)
        \/ DecryptResume(r)
        \/ LeafExecResume(r)
        \/ LeafProveResume(r)
        \/ LeafVerifyResume(r)
        \/ ArtifactsResume(r)
        \/ BootExecResume(r)
        \/ BootProveResume(r)
        \/ BootVkResume(r)
        \/ SumExecResume(r)
        \/ SumProveResume(r)
        \/ SumVerifyResume(r)

SpecOverlap == InitOverlap /\ [][NextOverlap]_vars

----------------------------------------------------------------------------
(* Ciphertexts as byte buffers.  A Buffer is a sequence of bytes, offset o of
   the buffer being element o + 1 of the sequence. *)

Bytes == 0 .. MaxByte

\* the two tags ciphertexts are given
TagBytes == {0, 1}

\* Buffer.prototype.slice(start): the bytes from offset start to the end
BufSliceFrom(buf, start) == SubSeq(buf, start + 1, Len(buf))

\* Buffer.prototype.slice(start, end), both offsets non-negative
BufSlice(buf, start, end) ==
    SubSeq(buf, start + 1, IF end < Len(buf) THEN end ELSE Len(buf))

\* faulty variant: the copy into the zero-filled buffer is left out
PaddedCopy_Omitted(src, size) == [k \in 1 .. size |-> 0]

\* Buffer.alloc(size) followed by src.copy(it, 0, 0, min(src.length, size))
PaddedCopy(src, size) ==
    [k \in 1 .. size |-> IF k <= Len(src) THEN src[k] ELSE 0]

\* Fr.fromBuffer: the field element with the given 32-byte big-endian encoding
FrFromBuffer(chunk) == <<"Fr", chunk>>

\* faulty variant: the tag is hashed with the rest
CiphertextFields_WithTag(ciphertext) ==
    LET paddedBuffer == PaddedCopy(ciphertext, MESSAGE_CIPHERTEXT_LEN * FIELD_LEN)
    IN  [i \in 1 .. MESSAGE_CIPHERTEXT_LEN |->
            FrFromBuffer(BufSlice(paddedBuffer, (i - 1) * FIELD_LEN, i * FIELD_LEN))]

\* lines 10-21 of hashCiphertextToLeaf: the 17 fields that are hashed
CiphertextFields(ciphertext) ==
    LET ciphertextWithoutTag == BufSliceFrom(ciphertext, TAG_LEN)
        paddedBuffer == PaddedCopy(ciphertextWithoutTag,
                                   MESSAGE_CIPHERTEXT_LEN * FIELD_LEN)
    IN  [i \in 1 .. MESSAGE_CIPHERTEXT_LEN |->
            FrFromBuffer(BufSlice(paddedBuffer, (i - 1) * FIELD_LEN, i * FIELD_LEN))]

\* hashCiphertextToLeaf on the bytes of a ciphertext (hashCiphertextToLeaf
\* above is the same function on ciphertexts named by a number)
hashCiphertextBufferToLeaf(ciphertext) ==
    hashCiphertextToLeaf(CiphertextFields(ciphertext))

\* buildIMTFromCiphertexts on buffers
buildIMTFromCiphertextBuffers(ciphertexts) ==
    buildIMT([k \in 1 .. Len(ciphertexts) |->
                 hashCiphertextBufferToLeaf(ciphertexts[k])])

\* a buffer of a tag and nf 32-byte fields after it, its bytes fixed by two
\* parameters
MkBuffer(tag, fill, nf) ==
    [k \in 1 .. (TAG_LEN + nf * FIELD_LEN) |->
        IF k <= TAG_LEN THEN tag
        ELSE IF fill = 0 THEN 0 ELSE 1 + ((fill + k) % 7)]

\* full ciphertexts and ciphertexts longer than the 17 fields that are hashed
FieldCounts == MESSAGE_CIPHERTEXT_LEN .. (MESSAGE_CIPHERTEXT_LEN + MaxOver)

Buffers == {MkBuffer(tag, fill, nf) : tag \in TagBytes, fill \in Bytes, nf \in FieldCounts}

----------------------------------------------------------------------------
(* decrypt.ts and the leaf step of proveLeaves on byte buffers *)

\* unpackFieldsToBytes: the last 31 bytes of every complete 32-byte field
\* faulty variant: the first 31 bytes of the field are taken
UnpackField_Leading(fieldBuffer) == BufSlice(fieldBuffer, 0, FIELD_LEN - 1)

\* line 161: fieldBuffer.slice(1, 32)
UnpackField(fieldBuffer) == BufSlice(fieldBuffer, 1, FIELD_LEN)

RECURSIVE UnpackLoop(_, _, _)
UnpackLoop(packedBuffer, i, numFields) ==
    IF i < numFields
    THEN UnpackField(BufSlice(packedBuffer, i * FIELD_LEN, (i + 1) * FIELD_LEN))
         \o UnpackLoop(packedBuffer, i + 1, numFields)
    ELSE <<>>

unpackFieldsToBytes(packedBuffer) ==
    UnpackLoop(packedBuffer, 0, Len(packedBuffer) \div FIELD_LEN)

\* decryptNote lines 31-40: all that decryptNote takes from the buffer;
\* restBytes[0] of an empty buffer is undefined, which is not 0
DecryptParse(encryptedLog) ==
    LET ciphertextWithoutTag == BufSliceFrom(encryptedLog, TAG_LEN)
        restBytes == unpackFieldsToBytes(BufSliceFrom(ciphertextWithoutTag, FIELD_LEN))
    IN  [ephPkX |-> FrFromBuffer(BufSlice(ciphertextWithoutTag, 0, FIELD_LEN)),
         restBytes |-> restBytes,
         ephPkSign |-> IF restBytes = <<>> THEN TRUE ELSE restBytes[1] # 0]

\* what decryptNote may resolve to: null or a list of plaintext fields
DecryptOutcomes == {decryptNote(c) : c \in 0 .. 1}

\* faulty variant: the tag is not skipped
NoteCiphertextFields_WithTag(encryptedLogBuffer) ==
    LET paddedBuffer == PaddedCopy(encryptedLogBuffer,
                                   MESSAGE_CIPHERTEXT_LEN * FIELD_LEN)
    IN  [i \in 1 .. MESSAGE_CIPHERTEXT_LEN |->
            FrFromBuffer(BufSlice(paddedBuffer, (i - 1) * FIELD_LEN, i * FIELD_LEN))]

\* prepareNoteCircuitInputs lines 330-342: the ciphertext fields of the leaf
\* circuit
NoteCiphertextFields(encryptedLogBuffer) ==
    LET ciphertextWithoutTag == BufSliceFrom(encryptedLogBuffer, TAG_LEN)
        paddedBuffer == PaddedCopy(ciphertextWithoutTag,
                                   MESSAGE_CIPHERTEXT_LEN * FIELD_LEN)
    IN  [i \in 1 .. MESSAGE_CIPHERTEXT_LEN |->
            FrFromBuffer(BufSlice(paddedBuffer, (i - 1) * FIELD_LEN, i * FIELD_LEN))]

\* prepareNoteCircuitInputs on a buffer
prepareNoteCircuitInputsOfBuffer(plaintext, encryptedLogBuffer) ==
    prepareNoteCircuitInputs(plaintext, NoteCiphertextFields(encryptedLogBuffer))

\* one pass of the loop of proveLeaves (lines 149-191) on a buffer, given
\* what decryptNote resolved to and what verifyProof answered
LeafStep(ciphertext, plaintext, isValid) ==
    IF plaintext = <<>>
    THEN [status |-> "DecryptionFailure", plaintext |-> plaintext,
          circuitInputs |-> <<>>, publicInputs |-> <<>>]
    ELSE LET circuitInputs == prepareNoteCircuitInputsOfBuffer(plaintext, ciphertext)
         IN  [status |-> IF isValid THEN "pushed" ELSE "InvalidLeafProof",
              plaintext |-> plaintext,
              circuitInputs |-> circuitInputs,
              publicInputs |-> IF isValid THEN NoteCircuit(circuitInputs) ELSE <<>>]

\* the ciphertext of the batch: a full-length one
TamperInit ==
    \E fill \in Bytes :
        tamper = [TIdle EXCEPT !.pc = "chosen",
                               !.ciphertext = MkBuffer(0, fill, MESSAGE_CIPHERTEXT_LEN)]

\* the leaf step on the ciphertext as it was
ProveOriginal ==
    /\ tamper.pc = "chosen"
    /\ \E plaintext \in DecryptOutcomes, isValid \in BOOLEAN :
          tamper' = [tamper EXCEPT
              !.pc = "original_proved",
              !.leaf = LeafStep(tamper.ciphertext, plaintext, isValid)]
    /\ UNCHANGED <<treeVars, cacheVars, zcall, pcall, dec, aud>>

\* one byte of a ciphertext that was proved is changed
ChangeByte(pos) ==
    /\ tamper.pc = "original_proved"
    /\ tamper.leaf.status = "pushed"
    /\ tamper' = [tamper EXCEPT
            !.pc = "altered", !.pos = pos,
            !.altered = [tamper.ciphertext EXCEPT ![pos + 1] = 255 - @]]
    /\ UNCHANGED <<treeVars, cacheVars, zcall, pcall, dec, aud>>

\* the leaf step on the altered ciphertext.  decryptNote is a function of
\* what it parsed from the buffer, and the circuit and the backend are
\* functions of the circuit inputs: equal arguments get the answers the
\* original got
ProveAltered ==
    /\ tamper.pc = "altered"
    /\ \E plaintext \in DecryptOutcomes, isValid \in BOOLEAN :
          /\ DecryptParse(tamper.altered) = DecryptParse(tamper.ciphertext) =>
                plaintext = tamper.leaf.plaintext
          /\ LET step == LeafStep(tamper.altered, plaintext, isValid) IN
             /\ (step.circuitInputs # <<>>
                    /\ step.circuitInputs = tamper.leaf.circuitInputs) =>
                   step.status = tamper.leaf.status
             /\ tamper' = [tamper EXCEPT !.pc = "proved", !.leafAltered = step]
    /\ UNCHANGED <<treeVars, cacheVars, zcall, pcall, dec, aud>>

InitTamper ==
    /\ notes = <<>>
    /\ TreeInit
    /\ cachedZeroHashes = <<>> /\ cachedMaxDepth = 0
    /\ zcall = [k \in ZCalls |-> ZIdle]
    /\ pcall = PIdle /\ dec = DIdle /\ aud = AIdle
    /\ TamperInit

NextTamper ==
    \/ ProveOriginal
    \/ \E pos \in 0 .. (Len(tamper.ciphertext) - 1) : ChangeByte(pos)
    \/ ProveAltered

SpecTamper == InitTamper /\ [][NextTamper]_vars

----------------------------------------------------------------------------
(* decryptNote, one step per await.  The curve, key-derivation and cipher
   functions it calls are outside the program: each of them may throw, and
   what the cipher returns is chosen from a few byte strings. *)

\* the lines of the try blocks of decryptNote and of reconstructPublicKey
DecryptTry == 27 .. 92
ReconstructTry == 172 .. 177

\* the catch clause of decryptNote (lines 92-95)
DecryptCatch(rec) == [rec EXCEPT !.pc = "returned", !.ret = NullResult]

\* an exception thrown in decryptNote at a line: it reaches the catch clause
\* if the line is inside the try block, else it rejects the promise
DecryptThrow(rec, line, step) ==
    IF line \in DecryptTry
    THEN DecryptCatch([rec EXCEPT !.failedAt = step])
    ELSE [rec EXCEPT !.pc = "rejected", !.failedAt = step]

\* reconstructPublicKey (lines 171-181): the point, or null (here <<>>) when
\* Point.fromXAndSign threw at line 175
reconstructPublicKey(pointFound) ==
    IF pointFound THEN <<"ephPk">>
    ELSE IF 175 \in ReconstructTry THEN <<>> ELSE <<"thrown">>

\* faulty variant: a null ephemeral key is not tested
AfterReconstruct_Unchecked(rec, ephPk) ==
    [rec EXCEPT !.pc = "preaddress", !.calls = Append(@, "getPreaddress"),
                !.failedAt = IF ephPk = <<>> THEN "reconstruct" ELSE @]

\* lines 43-50: the test of the reconstructed key
AfterReconstruct(rec, ephPk) ==
    IF ephPk = <<"thrown">> THEN DecryptThrow(rec, 43, "reconstruct")
    ELSE IF ephPk = <<>>
    THEN [rec EXCEPT !.pc = "returned", !.ret = NullResult,
                     !.failedAt = "reconstruct"]
    ELSE [rec EXCEPT !.pc = "preaddress", !.calls = Append(@, "getPreaddress")]

\* the stand-in for Aes128.decryptBufferCBC: the bytes of the ciphertext
\* without the padding, each one transformed
AesDecrypt(ciphertext, padding) ==
    [k \in 1 .. (IF Len(ciphertext) > padding THEN Len(ciphertext) - padding ELSE 0) |->
        255 - ciphertext[k]]

\* the decrypted headers: none, and declared lengths 0, 64, 480 and 65535
HeaderPlaintexts == {<<>>, <<0, 0>>, <<0, 64>>, <<1, 224>>, <<255, 255>>}

Paddings == {1, 16}

\* line 70: (headerPlaintext[0] << 8) | headerPlaintext[1], a missing byte
\* being undefined, which the operators read as 0
CiphertextLength(headerPlaintext) ==
    (IF Len(headerPlaintext) >= 1 THEN headerPlaintext[1] * 256 ELSE 0)
    + (IF Len(headerPlaintext) >= 2 THEN headerPlaintext[2] ELSE 0)

\* line 61: the header ciphertext
HeaderCiphertext(restBytes) == BufSlice(restBytes, 1, HEADER_END)

\* faulty variant: the body is taken from the offset of the last header byte
BodyCiphertext_FromHeaderEnd(restBytes, ciphertextLength) ==
    LET availableBytes == Len(restBytes) - HEADER_END
        actualLength == IF ciphertextLength < availableBytes
                        THEN ciphertextLength ELSE availableBytes
    IN  BufSlice(restBytes, HEADER_END - 1, HEADER_END - 1 + actualLength)

\* lines 73-75: the body ciphertext
BodyCiphertext(restBytes, ciphertextLength) ==
    LET availableBytes == Len(restBytes) - HEADER_END
        actualLength == IF ciphertextLength < availableBytes
                        THEN ciphertextLength ELSE availableBytes
    IN  BufSlice(restBytes, HEADER_END, HEADER_END + actualLength)

\* lines 83-89: one field for every complete 32 bytes of the body
RECURSIVE FieldsLoop(_, _)
FieldsLoop(bodyPlaintext, i) ==
    IF i < Len(bodyPlaintext)
    THEN (IF i + FIELD_LEN <= Len(bodyPlaintext)
          THEN <<FrFromBuffer(BufSlice(bodyPlaintext, i, i + FIELD_LEN))>>
          ELSE <<>>)
         \o FieldsLoop(bodyPlaintext, i + FIELD_LEN)
    ELSE <<>>

\* the buffers decryptNote is called with: a full ciphertext cut to a length
DecryptLengths ==
    {0, TAG_LEN - 1, TAG_LEN + 1, TAG_LEN + FIELD_LEN, TAG_LEN + 2 * FIELD_LEN,
     TAG_LEN + 3 * FIELD_LEN - 1, TAG_LEN + 4 * FIELD_LEN,
     TAG_LEN + MESSAGE_CIPHERTEXT_LEN * FIELD_LEN}

DecryptInputs ==
    {BufSlice(MkBuffer(0, fill, MESSAGE_CIPHERTEXT_LEN), 0, n) :
        fill \in Bytes, n \in DecryptLengths}

\* the call: lines 31-43 up to the await of reconstructPublicKey
DecryptNoteCall ==
    /\ dec.pc = "called"
    /\ \E ok \in BOOLEAN :
          dec' = IF ok
                 THEN [dec EXCEPT !.pc = "reconstruct",
                                  !.restBytes = DecryptParse(dec.encryptedLog).restBytes,
                                  !.calls = <<"reconstructPublicKey">>]
                 ELSE DecryptThrow(dec, 32, "parse")
    /\ UNCHANGED <<treeVars, cacheVars, zcall, pcall, tamper, aud>>

ReconstructResume ==
    /\ dec.pc = "reconstruct"
    /\ \E pointFound \in BOOLEAN :
          dec' = AfterReconstruct(dec, reconstructPublicKey(pointFound))
    /\ UNCHANGED <<treeVars, cacheVars, zcall, pcall, tamper, aud>>

\* lines 50-51
PreaddressResume ==
    /\ dec.pc = "preaddress"
    /\ \E ok \in BOOLEAN :
          dec' = IF ok
                 THEN [dec EXCEPT !.pc = "addressSecret",
                                  !.calls = Append(@, "computeAddressSecret")]
                 ELSE DecryptThrow(dec, 50, "preaddress")
    /\ UNCHANGED <<treeVars, cacheVars, zcall, pcall, tamper, aud>>

\* lines 51-54
AddressSecretResume ==
    /\ dec.pc = "addressSecret"
    /\ \E ok \in BOOLEAN :
          dec' = IF ok
                 THEN [dec EXCEPT !.pc = "ecdh",
                                  !.calls = Append(@, "deriveEcdhSharedSecret")]
                 ELSE DecryptThrow(dec, 51, "addressSecret")
    /\ UNCHANGED <<treeVars, cacheVars, zcall, pcall, tamper, aud>>

\* lines 54-57
EcdhResume ==
    /\ dec.pc = "ecdh"
    /\ \E ok \in BOOLEAN :
          dec' = IF ok
                 THEN [dec EXCEPT !.pc = "keys", !.calls = Append(@, "deriveAesKeys")]
                 ELSE DecryptThrow(dec, 54, "ecdh")
    /\ UNCHANGED <<treeVars, cacheVars, zcall, pcall, tamper, aud>>

\* lines 57-67
KeysResume ==
    /\ dec.pc = "keys"
    /\ \E ok \in BOOLEAN :
          dec' = IF ok
                 THEN [dec EXCEPT !.pc = "header",
                                  !.headerCiphertext = HeaderCiphertext(dec.restBytes),
                                  !.calls = Append(@, "decryptBufferCBC(header)")]
                 ELSE DecryptThrow(dec, 57, "keys")
    /\ UNCHANGED <<treeVars, cacheVars, zcall, pcall, tamper, aud>>

\* lines 63-80
HeaderResume ==
    /\ dec.pc = "header"
    /\ \E ok \in BOOLEAN, headerPlaintext \in HeaderPlaintexts :
          dec' = IF ok
                 THEN [dec EXCEPT
                          !.pc = "body",
                          !.headerPlaintext = headerPlaintext,
                          !.ciphertextLength = CiphertextLength(headerPlaintext),
                          !.bodyCiphertext =
                              BodyCiphertext(dec.restBytes,
                                             CiphertextLength(headerPlaintext)),
                          !.calls = Append(@, "decryptBufferCBC(body)")]
                 ELSE DecryptThrow(dec, 63, "header")
    /\ UNCHANGED <<treeVars, cacheVars, zcall, pcall, tamper, aud>>

\* lines 76-91
BodyResume ==
    /\ dec.pc = "body"
    /\ \E ok \in BOOLEAN, padding \in Paddings :
          dec' = IF ok
                 THEN LET bodyPlaintext == AesDecrypt(dec.bodyCiphertext, padding) IN
                      [dec EXCEPT
                          !.pc = "returned",
                          !.bodyPlaintext = bodyPlaintext,
                          !.ret = [isNull |-> FALSE,
                                   fields |-> FieldsLoop(bodyPlaintext, 0)]]
                 ELSE DecryptThrow(dec, 76, "body")
    /\ UNCHANGED <<treeVars, cacheVars, zcall, pcall, tamper, aud>>

InitDecrypt ==
    /\ notes = <<>>
    /\ TreeInit
    /\ cachedZeroHashes = <<>> /\ cachedMaxDepth = 0
    /\ zcall = [k \in ZCalls |-> ZIdle]
    /\ pcall = PIdle /\ tamper = TIdle /\ aud = AIdle
    /\ \E encryptedLog \in DecryptInputs :
          dec = [DIdle EXCEPT !.pc = "called", !.encryptedLog = encryptedLog]

NextDecrypt ==
    \/ DecryptNoteCall
    \/ ReconstructResume
    \/ PreaddressResume
    \/ AddressSecretResume
    \/ EcdhResume
    \/ KeysResume
    \/ HeaderResume
    \/ BodyResume

SpecDecrypt == InitDecrypt /\ [][NextDecrypt]_vars

----------------------------------------------------------------------------
(* The two codecs of decrypt.ts applied on their own: one call per behaviour,
   its argument chosen by the initial state *)

\* the bytes one field carries
CHUNK_LEN == FIELD_LEN - 1

\* the packing that unpackFieldsToBytes reverses: every 31 bytes become a
\* 32-byte field with a leading zero byte, the last chunk zero-padded on the
\* right
RECURSIVE bytesToFields(_)
bytesToFields(b) ==
    IF b = <<>> THEN <<>>
    ELSE (<<0>> \o PaddedCopy(BufSlice(b, 0, CHUNK_LEN), CHUNK_LEN))
         \o bytesToFields(BufSliceFrom(b, CHUNK_LEN))

\* byte sequences of a length, every position with its own value
MkBytes(fill, n) == [k \in 1 .. n |-> (k + fill * (k + 100)) % 256]

\* the packed buffer without its last cut bytes
PackedBuffer(b, cut) ==
    LET packed == bytesToFields(b)
    IN  BufSlice(packed, 0, IF Len(packed) > cut THEN Len(packed) - cut ELSE 0)

UnpackCalls ==
    {[pc |-> "called", fn |-> "unpackFieldsToBytes", arg |-> <<MkBytes(fill, n), cut>>,
      ret |-> <<>>] :
        fill \in Bytes, n \in 0 .. (2 * CHUNK_LEN + MaxOver), cut \in 0 .. MaxOver}

UnpackFieldsToBytesReturn ==
    /\ pcall.pc = "called" /\ pcall.fn = "unpackFieldsToBytes"
    /\ pcall' = [pcall EXCEPT
                    !.pc = "returned",
                    !.ret = unpackFieldsToBytes(PackedBuffer(pcall.arg[1], pcall.arg[2]))]
    /\ UNCHANGED <<treeVars, cacheVars, zcall, tamper, dec, aud>>

\* a field element, and the bigint of toBigInt(), as its four base-2^64
\* digits, the most significant first: below 2^64, below 2^128, and above
PlainFields == {<<0, 0, 0, 1>>, <<0, 0, 1, 2>>, <<0, 1, 0, 3>>}

\* faulty variant: the shift is by 128 bits
ShiftRight64_ByTwo(n) == SubSeq(n, 1, Len(n) - 2)

\* line 207: n >> 64n, the digits above the lowest
ShiftRight64(n) == SubSeq(n, 1, Len(n) - 1)

\* line 208: n & ((1n << 64n) - 1n), the lowest digit
Low64(n) == n[Len(n)]

AztecAddressFromField(field) == <<"AztecAddress", field>>

NullNote ==
    [isNull |-> TRUE, msgTypeId |-> <<>>, noteTypeId |-> 0, owner |-> <<>>,
     storageSlot |-> <<>>, randomness |-> <<>>, packedNote |-> <<>>]

\* faulty variant: storage slot and randomness are read from each other's field
parseNotePlaintext_Swapped(plaintext) ==
    IF Len(plaintext) < 4 THEN NullNote
    ELSE [isNull |-> FALSE,
          msgTypeId |-> ShiftRight64(plaintext[1]),
          noteTypeId |-> Low64(plaintext[1]),
          owner |-> AztecAddressFromField(plaintext[2]),
          storageSlot |-> plaintext[4],
          randomness |-> plaintext[3],
          packedNote |-> BufSliceFrom(plaintext, 4)]

\* parseNotePlaintext (lines 192-226)
parseNotePlaintext(plaintext) ==
    IF Len(plaintext) < 4 THEN NullNote
    ELSE [isNull |-> FALSE,
          msgTypeId |-> ShiftRight64(plaintext[1]),
          noteTypeId |-> Low64(plaintext[1]),
          owner |-> AztecAddressFromField(plaintext[2]),
          storageSlot |-> plaintext[3],
          randomness |-> plaintext[4],
          packedNote |-> BufSliceFrom(plaintext, 4)]

ParseCalls ==
    {[pc |-> "called", fn |-> "parseNotePlaintext", arg |-> plaintext, ret |-> <<>>] :
        plaintext \in SeqsUpTo(PlainFields, MaxPlainLen)}

ParseNotePlaintextReturn ==
    /\ pcall.pc = "called" /\ pcall.fn = "parseNotePlaintext"
    /\ pcall' = [pcall EXCEPT !.pc = "returned", !.ret = parseNotePlaintext(pcall.arg)]
    /\ UNCHANGED <<treeVars, cacheVars, zcall, tamper, dec, aud>>

\* poseidon2HashWithSeparator([x, y], separator), collision-free
poseidon2HashWithSeparator(fields, separator) == <<"HS", separator, fields>>

\* Fr.toBuffer of a hash: 32 bytes, a stand-in that depends on the hash and
\* gives neighbouring offsets different bytes
HashToBuffer(hash) ==
    [k \in 1 .. FIELD_LEN |->
        (hash[2] + 11 * (hash[2] \div 256) + 3 * hash[3][1] + 5 * hash[3][2] + 7 * k)
            % 256]

\* Buffer.prototype.reverse
BufReverse(buf) == [k \in 1 .. Len(buf) |-> buf[Len(buf) + 1 - k]]

\* faulty variant: the 16 bytes are taken from the high end and not reversed
KeyBytes_HighEnd(randBytes) == BufSlice(randBytes, 0, KEY_LEN)

\* lines 126-127 and 143-144: Buffer.from(randBytes.slice(16, 32)).reverse()
KeyBytes(randBytes) == BufReverse(BufSlice(randBytes, KEY_LEN, FIELD_LEN))

\* deriveAesKeys (lines 103-147): the four hashes asked for, in order, and
\* the four buffers returned
deriveAesKeys(sharedSecret, index) ==
    LET separators == <<index.SYMMETRIC_KEY, index.SYMMETRIC_KEY_2,
                        KEY_INDEX_SHIFT + index.SYMMETRIC_KEY,
                        KEY_INDEX_SHIFT + index.SYMMETRIC_KEY_2>>
        rand == [j \in 1 .. 4 |-> poseidon2HashWithSeparator(sharedSecret, separators[j])]
    IN  [hashed |-> [j \in 1 .. 4 |-> [fields |-> sharedSecret, separator |-> separators[j]]],
         bodyKey |-> KeyBytes(HashToBuffer(rand[1])),
         bodyIv |-> KeyBytes(HashToBuffer(rand[2])),
         headerKey |-> KeyBytes(HashToBuffer(rand[3])),
         headerIv |-> KeyBytes(HashToBuffer(rand[4]))]

\* the values GeneratorIndex can give the two separators: distinct members
\* of an enumeration of one-byte indices
GeneratorIndices ==
    {[SYMMETRIC_KEY |-> a, SYMMETRIC_KEY_2 |-> b] :
        a \in {0, 54, 255}, b \in {1, 55, 254}}

\* coordinates of the shared secret
Coordinates == 0 .. (MaxCoord)

DeriveCalls ==
    {[pc |-> "called", fn |-> "deriveAesKeys",
      arg |-> [sharedSecret |-> <<x, y>>, index |-> index], ret |-> <<>>] :
        x \in Coordinates, y \in Coordinates, index \in GeneratorIndices}

DeriveAesKeysReturn ==
    /\ pcall.pc = "called" /\ pcall.fn = "deriveAesKeys"
    /\ pcall' = [pcall EXCEPT !.pc = "returned",
                              !.ret = deriveAesKeys(pcall.arg.sharedSecret, pcall.arg.index)]
    /\ UNCHANGED <<treeVars, cacheVars, zcall, tamper, dec, aud>>

InitCodec ==
    /\ notes = <<>>
    /\ TreeInit
    /\ cachedZeroHashes = <<>> /\ cachedMaxDepth = 0
    /\ zcall = [k \in ZCalls |-> ZIdle]
    /\ pcall \in UnpackCalls \cup ParseCalls \cup DeriveCalls
    /\ tamper = TIdle /\ dec = DIdle /\ aud = AIdle

NextCodec ==
    \/ UnpackFieldsToBytesReturn
    \/ ParseNotePlaintextReturn
    \/ DeriveAesKeysReturn

SpecCodec == InitCodec /\ [][NextCodec]_vars

----------------------------------------------------------------------------
(* The inputs of the two circuits as the arrays of strings they are passed
   as, each builder applied on its own: one call per behaviour, its arguments
   chosen by the initial state *)

\* Fr.toString, and the reading of such a string as a field by a circuit
FrToString(field) == <<"0x", field>>
HexToField(string) == string[2]

\* the string "0x0"
ZERO_STRING == FrToString(0)

\* prepareNoteCircuitInputs lines 338-342: the ciphertext input
NoteCiphertextInput(encryptedLogBuffer) ==
    LET fields == NoteCiphertextFields(encryptedLogBuffer)
    IN  [i \in 1 .. Len(fields) |-> FrToString(fields[i])]

\* faulty variant: the placeholder always has one field
EmptyProofFields_Fixed(left) == <<ZERO_STRING>>

\* combineProofs line 253: new Array(left.proofAsFields.length).fill("0x0")
EmptyProofFields(left) == [k \in 1 .. Len(left.proofAsFields) |-> ZERO_STRING]

\* combineProofs lines 251-282 on artifacts whose proofs are arrays of
\* strings; right is null (here <<>>) or one artifact; zh is this.zeroHashes
SummaryInputs(left, right, level, vkAsFields, vkHash, zh, svk) ==
    LET hasRight == right # <<>>
        emptyProofFields == EmptyProofFields(left)
        emptyInputs == <<ZERO_STRING, ZERO_STRING, ZERO_STRING>>
        zeroLeaf == zh[level + 1]
    IN  [verification_key |-> vkAsFields,
         vkey_hash |-> vkHash,
         proof_left |-> left.proofAsFields,
         proof_right |-> [is_some |-> hasRight,
                          value |-> IF hasRight THEN right[1].proofAsFields
                                    ELSE emptyProofFields],
         public_inputs_left |-> left.publicInputs,
         public_inputs_right |-> [is_some |-> hasRight,
                                  value |-> IF hasRight THEN right[1].publicInputs
                                            ELSE emptyInputs],
         zero_leaf_hint |-> [is_some |-> ~hasRight,
                             value |-> IF hasRight THEN ZERO_STRING
                                       ELSE FrToString(zeroLeaf)],
         summary_vkey_hash |-> svk]

\* lines 255 and 280: zeroHashes[level] is undefined past the end of the
\* table, and undefined.toString(), evaluated when there is no right child,
\* throws a TypeError
HintUndefined(right, level, zh) == right = <<>> /\ level >= Len(zh)

\* the levels a combination is asked for: the low ones, the last one the
\* table of initialize covers and the first one it does not
CombineLevels == Depths \cup {INIT_ZERO_DEPTH, INIT_ZERO_DEPTH + 1}

\* an artifact with a proof of n fields
MkArtifact(name, n) ==
    [proofAsFields |-> [k \in 1 .. n |-> FrToString(<<name, k>>)],
     publicInputs |-> <<FrToString(<<name, "value">>), FrToString(<<name, "root">>),
                        FrToString(<<name, "vkey">>)>>]

SummaryInputsCalls ==
    {[pc |-> "called", fn |-> "combineProofs",
      arg |-> [left |-> MkArtifact("left", n), right |-> right, level |-> level],
      ret |-> <<>>] :
        n \in 0 .. MaxProofFields,
        right \in {<<>>} \cup {<<MkArtifact("right", m)>> : m \in 1 .. MaxProofFields},
        level \in CombineLevels}

SummaryInputsReturn ==
    /\ pcall.pc = "called" /\ pcall.fn = "combineProofs"
    /\ LET zh == computeZeroHashes(INIT_ZERO_DEPTH) IN
         pcall' = IF HintUndefined(pcall.arg.right, pcall.arg.level, zh)
                  THEN [pcall EXCEPT !.pc = "thrown", !.ret = <<"TypeError">>]
                  ELSE [pcall EXCEPT
                           !.pc = "returned",
                           !.ret = SummaryInputs(pcall.arg.left, pcall.arg.right,
                                                 pcall.arg.level, "vkAsFields", "vkHash",
                                                 zh, "summaryVkHash")]
    /\ UNCHANGED <<treeVars, cacheVars, zcall, tamper, dec, aud>>

\* ciphertext buffers of every length around the tag and the 17 fields
InputLengths ==
    {0, TAG_LEN - 1, TAG_LEN, TAG_LEN + 1, TAG_LEN + FIELD_LEN,
     TAG_LEN + FIELD_LEN + 1, TAG_LEN + MESSAGE_CIPHERTEXT_LEN * FIELD_LEN - 1,
     TAG_LEN + MESSAGE_CIPHERTEXT_LEN * FIELD_LEN,
     TAG_LEN + MESSAGE_CIPHERTEXT_LEN * FIELD_LEN + 1,
     TAG_LEN + (MESSAGE_CIPHERTEXT_LEN + MaxOver) * FIELD_LEN}

InputBuffers ==
    {BufSlice(MkBuffer(tag, fill, MESSAGE_CIPHERTEXT_LEN + MaxOver), 0, n) :
        tag \in TagBytes, fill \in Bytes, n \in InputLengths}

NoteInputCalls ==
    {[pc |-> "called", fn |-> "prepareNoteCircuitInputs", arg |-> buffer, ret |-> <<>>] :
        buffer \in InputBuffers}

PrepareNoteCircuitInputsReturn ==
    /\ pcall.pc = "called" /\ pcall.fn = "prepareNoteCircuitInputs"
    /\ pcall' = [pcall EXCEPT !.pc = "returned",
                              !.ret = NoteCiphertextInput(pcall.arg)]
    /\ UNCHANGED <<treeVars, cacheVars, zcall, tamper, dec, aud>>

InitCircuitInputs ==
    /\ notes = <<>>
    /\ TreeInit
    /\ cachedZeroHashes = <<>> /\ cachedMaxDepth = 0
    /\ zcall = [k \in ZCalls |-> ZIdle]
    /\ pcall \in SummaryInputsCalls \cup NoteInputCalls
    /\ tamper = TIdle /\ dec = DIdle /\ aud = AIdle

NextCircuitInputs ==
    \/ SummaryInputsReturn
    \/ PrepareNoteCircuitInputsReturn

SpecCircuitInputs == InitCircuitInputs /\ [][NextCircuitInputs]_vars

----------------------------------------------------------------------------
(* auditor.ts: retrieveEncryptedNotes and processSecret, one step per await.
   A secret of the export is the record of its position in the export and its
   direction.  The tag generator, the hash and the node are outside the
   program: each call may fail, and the node chooses which tags have logs. *)

Directions == {"inbound", "outbound", "unknown"}

\* line 38: secrets.filter(s => s.direction === 'inbound')
\* faulty variant: every secret of the export is kept
FilterInbound_All(secrets) == secrets

FilterInbound(secrets) == SelectSeq(secrets, LAMBDA s : s.direction = "inbound")

\* an option that was not given is <<>>
OptionOr(option, default) == IF option = <<>> THEN default ELSE option[1]

DEFAULT_START_INDEX == 0

\* lines 141-149, then lines 51-63: the result of the secret is pushed and
\* the next inbound secret is started, or the results are returned
RECURSIVE BatchHead(_)
FinishSecret(rec) ==
    LET secretResult == [secret |-> rec.inboundSecrets[rec.k].pos,
                         notes |-> rec.notes, noteCount |-> Len(rec.notes)]
        pushed == [rec EXCEPT !.results = Append(@, secretResult), !.notes = <<>>,
                              !.tags = <<>>, !.logsPerTag = <<>>, !.i = 0,
                              !.count = 0]
    IN  IF rec.k < Len(rec.inboundSecrets)
        THEN BatchHead([pushed EXCEPT !.k = rec.k + 1, !.index = rec.startIndex])
        ELSE [pushed EXCEPT !.pc = "returned"]

\* the head of the batch loop (lines 82-87), up to the await of generateTags
BatchHead(rec) ==
    IF rec.index < rec.startIndex + rec.maxIndices
    THEN LET remaining == rec.startIndex + rec.maxIndices - rec.index
             count == IF rec.batchSize < remaining THEN rec.batchSize ELSE remaining
         IN  [rec EXCEPT !.pc = "generateTags", !.count = count,
                         !.tags = <<>>, !.logsPerTag = <<>>, !.i = 0,
                         !.tagCalls = Append(@, [secret |-> rec.inboundSecrets[rec.k].pos,
                                                 index |-> rec.index, count |-> count])]
    ELSE FinishSecret(rec)

\* faulty variant: a batch without logs does not end the scan
BatchEnd_NoBreak(rec) == BatchHead([rec EXCEPT !.index = rec.index + rec.batchSize])

\* lines 136-139, and the increment of line 82
BatchEnd(rec) ==
    IF \A t \in 1 .. Len(rec.logsPerTag) : rec.logsPerTag[t] = 0
    THEN FinishSecret(rec)
    ELSE BatchHead([rec EXCEPT !.index = rec.index + rec.batchSize])

\* the loop over the tags of the batch (lines 108-113), up to the await of
\* mapLogsToNoteHashes for the next tag that has logs
RECURSIVE TagLoop(_)
TagLoop(rec) ==
    IF rec.i < Len(rec.logsPerTag)
    THEN IF rec.logsPerTag[rec.i + 1] = 0
         THEN TagLoop([rec EXCEPT !.i = rec.i + 1])
         ELSE [rec EXCEPT !.pc = "mapLogsToNoteHashes"]
    ELSE BatchEnd(rec)

\* an awaited call rejected: nothing catches it
AuditorThrow(rec) == [rec EXCEPT !.pc = "rejected"]

AuditorCalls ==
    {[AIdle EXCEPT !.pc = "called",
                   !.secrets = [p \in 1 .. Len(directions) |->
                                   [pos |-> p, direction |-> directions[p]]],
                   !.startIndex = OptionOr(startIndex, DEFAULT_START_INDEX),
                   !.maxIndices = maxIndices,
                   !.batchSize = batchSize] :
        directions \in SeqsUpTo(Directions, MaxSecrets),
        startIndex \in {<<>>, <<1>>},
        maxIndices \in 0 .. MaxIndices,
        batchSize \in 0 .. MaxBatch}

\* lines 27-42: the call, up to the first await
RetrieveEncryptedNotesCall ==
    /\ aud.pc = "called"
    /\ LET inboundSecrets == FilterInbound(aud.secrets)
           rec == [aud EXCEPT !.inboundSecrets = inboundSecrets]
       IN  aud' = IF inboundSecrets = <<>>
                  THEN [rec EXCEPT !.pc = "returned"]
                  ELSE BatchHead([rec EXCEPT !.k = 1, !.index = rec.startIndex])
    /\ UNCHANGED <<treeVars, cacheVars, zcall, pcall, tamper, dec>>

\* lines 87-96: generateTags has answered with count tags
GenerateTagsResume ==
    /\ aud.pc = "generateTags"
    /\ \E ok \in BOOLEAN :
          aud' = IF ok
                 THEN [aud EXCEPT !.pc = "poseidon2Hash",
                                  !.tags = [t \in 1 .. aud.count |-> aud.index + t - 1]]
                 ELSE AuditorThrow(aud)
    /\ UNCHANGED <<treeVars, cacheVars, zcall, pcall, tamper, dec>>

\* lines 92-102: the tags are siloed; line 99 reads siloedTags[0].toString()
SiloResume ==
    /\ aud.pc = "poseidon2Hash"
    /\ \E ok \in BOOLEAN :
          aud' = IF ok /\ aud.tags # <<>>
                 THEN [aud EXCEPT !.pc = "getLogsByTags",
                                  !.queries = Append(@, [secret |-> aud.inboundSecrets[aud.k].pos,
                                                         tags |-> aud.tags])]
                 ELSE AuditorThrow(aud)
    /\ UNCHANGED <<treeVars, cacheVars, zcall, pcall, tamper, dec>>

\* lines 102-113: the node has answered, one list of logs per tag
GetLogsByTagsResume ==
    /\ aud.pc = "getLogsByTags"
    /\ \E ok \in BOOLEAN, withLogs \in SUBSET (1 .. Len(aud.tags)) :
          aud' = IF ok
                 THEN LET logsPerTag == [t \in 1 .. Len(aud.tags) |->
                                            IF t \in withLogs THEN 1 ELSE 0]
                      IN  TagLoop([aud EXCEPT !.logsPerTag = logsPerTag,
                                              !.answers = Append(@, logsPerTag),
                                              !.i = 0])
                 ELSE AuditorThrow(aud)
    /\ UNCHANGED <<treeVars, cacheVars, zcall, pcall, tamper, dec>>

\* lines 113-133: the logs of a tag are mapped, one note per log
MapLogsResume ==
    /\ aud.pc = "mapLogsToNoteHashes"
    /\ \E ok \in BOOLEAN :
          aud' = IF ok
                 THEN TagLoop([aud EXCEPT
                                  !.notes = Append(@, [tagIndex |-> aud.index + aud.i,
                                                       tag |-> aud.tags[aud.i + 1],
                                                       secret |-> aud.inboundSecrets[aud.k].pos]),
                                  !.i = aud.i + 1])
                 ELSE AuditorThrow(aud)
    /\ UNCHANGED <<treeVars, cacheVars, zcall, pcall, tamper, dec>>

InitAuditor ==
    /\ notes = <<>>
    /\ TreeInit
    /\ cachedZeroHashes = <<>> /\ cachedMaxDepth = 0
    /\ zcall = [k \in ZCalls |-> ZIdle]
    /\ pcall = PIdle /\ tamper = TIdle /\ dec = DIdle
    /\ aud \in AuditorCalls

NextAuditor ==
    \/ RetrieveEncryptedNotesCall
    \/ GenerateTagsResume
    \/ SiloResume
    \/ GetLogsByTagsResume
    \/ MapLogsResume

SpecAuditor == InitAuditor /\ [][NextAuditor]_vars

\* every awaited call of the retrieval is answered or rejected in the end
SpecAuditorFair == SpecAuditor /\ WF_vars(NextAuditor)

----------------------------------------------------------------------------
(* The Merkle accumulator applied on its own: one call per behaviour, its
   argument chosen by the initial state *)

\* field elements handed to buildIMT as leaves
LeafValues == {FrZERO} \cup {hashCiphertextToLeaf(c) : c \in 1 .. MaxCt}

BuildIMTCalls ==
    {[pc |-> "called", fn |-> "buildIMT", arg |-> leaves, ret |-> <<>>] :
        leaves \in SeqsUpTo(LeafValues, MaxNotes)}

BuildIMTFromCiphertextsCalls ==
    {[pc |-> "called", fn |-> "buildIMTFromCiphertexts", arg |-> cts, ret |-> <<>>] :
        cts \in SeqsUpTo(Buffers, MaxCts)}

BuildIMTFromCiphertextsReturn ==
    /\ pcall.pc = "called" /\ pcall.fn = "buildIMTFromCiphertexts"
    /\ pcall' = [pcall EXCEPT !.pc = "returned",
                              !.ret = buildIMTFromCiphertextBuffers(pcall.arg)]
    /\ UNCHANGED <<treeVars, cacheVars, zcall, tamper, dec, aud>>

\* hashCiphertextToLeaf on buffers of every length around the tag and the
\* 17 fields
HashCiphertextToLeafCalls ==
    {[pc |-> "called", fn |-> "hashCiphertextToLeaf", arg |-> buffer, ret |-> <<>>] :
        buffer \in InputBuffers}

HashCiphertextToLeafReturn ==
    /\ pcall.pc = "called" /\ pcall.fn = "hashCiphertextToLeaf"
    /\ pcall' = [pcall EXCEPT !.pc = "returned",
                              !.ret = hashCiphertextBufferToLeaf(pcall.arg)]
    /\ UNCHANGED <<treeVars, cacheVars, zcall, tamper, dec, aud>>

BuildIMTReturn ==
    /\ pcall.pc = "called" /\ pcall.fn = "buildIMT"
    /\ pcall' = [pcall EXCEPT !.pc = "returned", !.ret = buildIMT(pcall.arg)]
    /\ UNCHANGED <<treeVars, cacheVars, zcall, tamper, dec, aud>>

InitIMT ==
    /\ notes = <<>>
    /\ TreeInit
    /\ cachedZeroHashes = <<>> /\ cachedMaxDepth = 0
    /\ zcall = [k \in ZCalls |-> ZIdle]
    /\ pcall \in BuildIMTCalls \cup BuildIMTFromCiphertextsCalls
                \cup HashCiphertextToLeafCalls
    /\ tamper = TIdle /\ dec = DIdle /\ aud = AIdle

NextIMT ==
    \/ BuildIMTReturn
    \/ BuildIMTFromCiphertextsReturn
    \/ HashCiphertextToLeafReturn

SpecIMT == InitIMT /\ [][NextIMT]_vars

\* the zero-hash cache alone, used by any number of overlapping callers
InitZH ==
    /\ notes = <<>>
    /\ TreeInit
    /\ cachedZeroHashes = <<>> /\ cachedMaxDepth = 0
    /\ zcall = [k \in ZCalls |-> ZIdle]
    /\ LibInit

NextZH ==
    \E k \in ZCalls :
        \/ \E d \in Depths : GetZeroHashesCall(k, d)
        \/ GetZeroHashesResume(k)

SpecZH == InitZH /\ [][NextZH]_vars

----------------------------------------------------------------------------
(* Properties *)

Range(q) == {q[k] : k \in 1 .. Len(q)}

\* every artifact an invocation holds in a level list
LevelArtifacts(rec) == Range(rec.proofs) \cup Range(rec.currentLevel) \cup Range(rec.nextLevel)

LeafPhase(rec) == rec.pc \in {"decrypt", "leaf_exec", "leaf_prove", "leaf_verify", "leaf_vk"}
BootPhase(rec) == rec.pc \in {"boot_exec", "boot_prove", "boot_vk"}
CombinePhase(rec) == rec.pc \in {"sum_exec", "sum_prove", "sum_verify", "sum_vk"}

RECURSIVE SumOfValues(_)
SumOfValues(cts) ==
    IF cts = <<>> THEN 0
    ELSE NoteValue(decryptNote(Head(cts))) + SumOfValues(Tail(cts))

\* C1: whenever prove() has returned, the root of its result equals
\* buildIMTFromCiphertexts over the same ordered ciphertext list, for every
\* non-empty batch, a power of two long or not.
C1_RootMatchesIMT ==
    \A r \in Slots :
        run[r].pc = "done" =>
            run[r].result[1].publicInputs.root = buildIMTFromCiphertexts(notes)

\* a returned run over five notes: odd levels at depth 0 and at depth 1
C1_Witness ==
    \E r \in Slots : run[r].pc = "done" /\ Len(notes) = 5

\* C2: whenever prove() has returned, the sum of its result is the exact sum
\* of the values of all notes of the batch.
C2_SumExact ==
    \A r \in Slots :
        run[r].pc = "done" =>
            run[r].result[1].publicInputs.sum = SumOfValues(notes)

C2_Witness ==
    \E r \in Slots :
        /\ run[r].pc = "done"
        /\ Len(notes) >= 3
        /\ \E j, k \in 1 .. Len(notes) : notes[j] # notes[k]

\* C3: when decryption fails at position i the run is aborted there: exactly
\* the notes 0..i were decrypted, exactly the leaves before i were proved, no
\* summary circuit call was made and there is no result; and no run is ever
\* past a note that does not decrypt (the note is not skipped).
C3_DecryptFailureAborts ==
    \A r \in Slots :
        LET rec == run[r] IN
        /\ (rec.pc = "error" /\ rec.error = "DecryptionFailure") =>
              /\ decryptNote(notes[rec.errorAt + 1]) = <<>>
              /\ rec.decryptCalls = rec.errorAt + 1
              /\ rec.leafProofs = rec.errorAt
              /\ Len(rec.proofs) = rec.errorAt
              /\ rec.summaryExecs = 0
              /\ rec.currentLevel = <<>> /\ rec.nextLevel = <<>>
              /\ rec.result = <<>>
        /\ LeafPhase(rec) =>
              \A k \in 1 .. rec.i : decryptNote(notes[k]) # <<>>
        /\ (BootPhase(rec) \/ CombinePhase(rec) \/ rec.pc = "done") =>
              \A k \in 1 .. Len(notes) : decryptNote(notes[k]) # <<>>
        /\ rec.result # <<>> => rec.pc = "done"

\* a failure after some leaves were proved and with notes still to come
C3_Witness ==
    \E r \in Slots :
        /\ run[r].pc = "error" /\ run[r].error = "DecryptionFailure"
        /\ run[r].errorAt >= 1
        /\ run[r].errorAt + 1 < Len(notes)

\* C4: every artifact in a level list, and the proof of the result, is a
\* proof that verifyProof accepted right after it was generated; a run whose
\* leaf or summary proof failed verification holds that proof in no artifact
\* and has no result.
C4_ArtifactsVerified ==
    \A r \in Slots :
        LET rec == run[r] IN
        /\ \A a \in LevelArtifacts(rec) : a.proof.verified /\ a.proof.valid
        /\ rec.result # <<>> => rec.result[1].proof.verified /\ rec.result[1].proof.valid
        /\ (rec.pc = "error" /\ rec.error \in {"InvalidLeafProof", "InvalidSummaryProof"}) =>
              /\ rec.result = <<>>
              /\ rec.error = "InvalidLeafProof" => Len(rec.proofs) = rec.errorAt
              /\ rec.error = "InvalidSummaryProof" => 2 * Len(rec.nextLevel) = rec.errorAt

\* a summary proof failed verification after earlier pairs were combined
C4_Witness ==
    \E r \in Slots :
        /\ run[r].pc = "error" /\ run[r].error = "InvalidSummaryProof"
        /\ Len(run[r].nextLevel) >= 1
        /\ run[r].level >= 1

C6_ThrowawayDiscarded ==
    \A r \in Slots :
        LET rec == run[r] IN
        /\ \A a \in LevelArtifacts(rec) : ~a.proof.throwaway
        /\ rec.result # <<>> => ~rec.result[1].proof.throwaway
        /\ CombinePhase(rec) => ~(rec.proof # <<>> /\ rec.proof[1].throwaway)
        /\ (rec.bootAt # <<>> /\ rec.pc = "sum_exec" /\ <<rec.level, rec.i>> = rec.bootAt) =>
              /\ rec.summaryExecs = 1
              /\ rec.nextLevel = <<>>
              /\ rec.summaryInputs[1].public_inputs_left = LeftOf(rec).publicInputs
              /\ rec.summaryInputs[1].summary_vkey_hash # PLACEHOLDER
        /\ (rec.bootAt # <<>> /\ rec.level = 0 /\ Len(rec.nextLevel) >= 1) =>
              /\ rec.summaryExecs >= 2
              /\ rec.nextLevel[1].proof.circuit = "summary"
              /\ rec.nextLevel[1].proof.verified

\* the pair that triggered the bootstrap has been combined
C6_Witness ==
    \E r \in Slots :
        /\ run[r].bootAt # <<>>
        /\ run[r].level = 0
        /\ Len(run[r].nextLevel) >= 1

\* C7: every return of prove() on a batch of at least two notes leaves the
\* same cached summary key hash, which is not the placeholder; the
\* summary_vkey_hash of every real combination, of every stored summary proof
\* and of the proof of the final output is that cached hash.
C7_SameSummaryHash ==
    /\ Len(notes) >= 2 =>
          \A j \in 1 .. Len(hist.doneHashes) :
              /\ hist.doneHashes[j] = hist.doneHashes[1]
              /\ hist.doneHashes[j] \notin {NULL, PLACEHOLDER}
              /\ hist.doneHashes[j] = summaryVkHash
    /\ \A r \in Slots :
          LET rec == run[r] IN
          /\ rec.summaryInputs # <<>> =>
                /\ rec.summaryInputs[1].summary_vkey_hash = summaryVkHash
                /\ summaryVkHash \notin {NULL, PLACEHOLDER}
          /\ \A a \in LevelArtifacts(rec) :
                a.proof.circuit = "summary" =>
                    a.proof.svk = summaryVkHash /\ a.proof.svk \notin {NULL, PLACEHOLDER}
          /\ (rec.pc = "done" /\ Len(notes) >= 2) =>
                /\ rec.result[1].proof.svk = summaryVkHash
                /\ summaryVkHash \notin {NULL, PLACEHOLDER}

\* prove() has returned twice on a batch that needs combinations
C7_Witness ==
    Len(hist.doneHashes) = 2 /\ Len(notes) >= 2

\* C8: no run ends with the missing-summary-key error; a combination of level
\* 0 holds the cached leaf key and a combination of a higher level holds the
\* cached summary key, neither of them null.
C8_KeysCachedBeforeUse ==
    \A r \in Slots :
        LET rec == run[r] IN
        /\ rec.error # "MissingSummaryKey"
        /\ (BootPhase(rec) \/ CombinePhase(rec)) =>
              /\ rec.vkAsFields # NULL /\ rec.vkHash # NULL
              /\ rec.level = 0 =>
                    rec.vkAsFields = leafVkAsFields /\ rec.vkHash = leafVkHash
              /\ rec.level >= 1 =>
                    rec.vkAsFields = summaryVkAsFields /\ rec.vkHash = summaryVkHash

\* a combination of a level above the leaves has begun
C8_Witness ==
    \E r \in Slots : run[r].pc = "sum_exec" /\ run[r].level >= 1

ZeroTable(t, d) ==
    /\ Len(t) = d + 1
    /\ t[1] = FrZERO
    /\ \A j \in 2 .. d + 1 : t[j] = poseidon2Hash(t[j - 1], t[j - 1])

\* C10: every table getZeroHashes has returned for a depth d has d + 1
\* entries, entry 0 the zero field element and each further entry the hash of
\* two copies of the one before it; a non-empty module cache has
\* cachedMaxDepth + 1 entries.
C10_ZeroHashTables ==
    /\ \A k \in ZCalls :
          zcall[k].pc = "returned" => ZeroTable(zcall[k].ret, zcall[k].maxDepth)
    /\ cachedZeroHashes # <<>> => Len(cachedZeroHashes) = cachedMaxDepth + 1

\* a table served from a deeper cache
C10_Witness ==
    \E k \in ZCalls :
        /\ zcall[k].pc = "returned"
        /\ zcall[k].maxDepth >= 1
        /\ zcall[k].maxDepth < cachedMaxDepth

----------------------------------------------------------------------------
(* The zero-hash cache under overlapping callers *)

\* C11: in every step the cached maximum depth and the length of the cached
\* table do not decrease, whatever the interleaving of getZeroHashes calls.
C11_CacheNeverShrinks ==
    [][/\ cachedMaxDepth' >= cachedMaxDepth
       /\ Len(cachedZeroHashes') >= Len(cachedZeroHashes)]_vars

\* C12: a getZeroHashes(d) call that finds the cache covering d computes
\* nothing, leaves cachedZeroHashes and cachedMaxDepth as they are and
\* returns the first d + 1 cached entries; a call starts a computation only
\* when nothing is cached or d exceeds the cached maximum depth.
C12_CoveredCallIsPure ==
    [][\A k \in ZCalls :
          (zcall[k].pc \in {"idle", "returned"} /\ zcall'[k] # zcall[k]) =>
              LET d == zcall'[k].maxDepth
                  covered == cachedZeroHashes # <<>> /\ cachedMaxDepth >= d
              IN  /\ covered =>
                        /\ zcall'[k].pc = "returned"
                        /\ zcall'[k].fromCache
                        /\ zcall'[k].computed = <<>>
                        /\ cachedZeroHashes' = cachedZeroHashes
                        /\ cachedMaxDepth' = cachedMaxDepth
                        /\ zcall'[k].ret = SubSeq(cachedZeroHashes, 1, d + 1)
                  /\ zcall'[k].pc = "computing" =>
                        /\ cachedZeroHashes = <<>> \/ d > cachedMaxDepth
                        /\ zcall'[k].computed = computeZeroHashes(d)
                  /\ zcall'[k].pc \in {"returned", "computing"}]_vars

\* a call served from a cache that is deeper than the request
C12_Witness ==
    \E k \in ZCalls :
        /\ zcall[k].fromCache
        /\ zcall[k].pc = "returned"
        /\ zcall[k].maxDepth >= 1
        /\ Len(zcall[k].ret) = zcall[k].maxDepth + 1
        /\ Len(cachedZeroHashes) > Len(zcall[k].ret)

----------------------------------------------------------------------------
(* buildIMT against the complete binary tree *)

\* the least k with 2^k >= n
TreeDepth(n) == CHOOSE k \in 0 .. n : 2 ^ k >= n /\ \A j \in 0 .. k - 1 : 2 ^ j < n

\* the root of the complete binary tree of the given depth over the leaves
\* from position first on, positions past the end of the list holding zero
RECURSIVE CompleteTreeRoot(_, _, _)
CompleteTreeRoot(leaves, depth, first) ==
    IF depth = 0
    THEN IF first <= Len(leaves) THEN leaves[first] ELSE FrZERO
    ELSE poseidon2Hash(CompleteTreeRoot(leaves, depth - 1, first),
                       CompleteTreeRoot(leaves, depth - 1, first + 2 ^ (depth - 1)))

\* C13: buildIMT returns the zero field element for no leaves, the leaf
\* itself for one leaf, and for n >= 2 leaves the root of the complete binary
\* tree of depth ceil(log2 n) over the leaves in order followed by zeros,
\* each parent the hash of its left and right child.
C13_BuildIMTIsCompleteTree ==
    (pcall.pc = "returned" /\ pcall.fn = "buildIMT") =>
        LET leaves == pcall.arg
            n == Len(leaves)
        IN  /\ n = 0 => pcall.ret = FrZERO
            /\ n = 1 => pcall.ret = leaves[1]
            /\ n >= 2 => pcall.ret = CompleteTreeRoot(leaves, TreeDepth(n), 1)

\* five leaves, not all equal: depth 3 with three zero leaves on the right
C13_Witness ==
    /\ pcall.pc = "returned" /\ pcall.fn = "buildIMT"
    /\ Len(pcall.arg) = 5
    /\ pcall.arg[1] # pcall.arg[2]
    /\ pcall.arg[5] # FrZERO
    /\ pcall.ret = poseidon2Hash(
           poseidon2Hash(poseidon2Hash(pcall.arg[1], pcall.arg[2]),
                         poseidon2Hash(pcall.arg[3], pcall.arg[4])),
           poseidon2Hash(poseidon2Hash(pcall.arg[5], FrZERO), <<"Z", 1>>))

----------------------------------------------------------------------------
(* buildIMTFromCiphertexts: content and order *)

\* the list with the elements at positions i and j exchanged
Exchange(q, i, j) == [q EXCEPT ![i] = q[j], ![j] = q[i]]

\* the byte at an offset of a buffer, zero past its end
ByteAt(buf, o) == IF o < Len(buf) THEN buf[o + 1] ELSE 0

\* two ciphertexts agree on offsets 32 .. 575, the shorter one zero-extended
SameHashedBytes(a, b) ==
    \A o \in TAG_LEN .. (TAG_LEN + MESSAGE_CIPHERTEXT_LEN * FIELD_LEN - 1) :
        ByteAt(a, o) = ByteAt(b, o)

\* C14 as stated: the root returned for a non-empty list differs from the
\* root of the list with any two distinct ciphertexts exchanged.
C14_AnyDistinctExchangeChangesRoot ==
    (pcall.pc = "returned" /\ pcall.fn = "buildIMTFromCiphertexts") =>
        \A i, j \in 1 .. Len(pcall.arg) :
            (i < j /\ pcall.arg[i] # pcall.arg[j]) =>
                buildIMTFromCiphertextBuffers(Exchange(pcall.arg, i, j)) # pcall.ret

\* C14: the root returned for a non-empty list is a function of the list (the
\* complete-tree root over the leaf hashes in order), and it differs from the
\* root of the list with two ciphertexts exchanged whenever the two differ
\* at some offset of 32 .. 575.
C14_ExchangeChangesRoot ==
    (pcall.pc = "returned" /\ pcall.fn = "buildIMTFromCiphertexts"
        /\ Len(pcall.arg) >= 1) =>
        LET cts == pcall.arg
            leaves == [k \in 1 .. Len(cts) |->
                          <<"L", CiphertextFields(cts[k])>>]
        IN  /\ pcall.ret = CompleteTreeRoot(leaves, TreeDepth(Len(cts)), 1)
            /\ \A i, j \in 1 .. Len(cts) :
                  (i < j /\ ~SameHashedBytes(cts[i], cts[j])) =>
                      buildIMTFromCiphertextBuffers(Exchange(cts, i, j)) # pcall.ret

\* two ciphertexts that differ in the hashed bytes
C14_Witness ==
    /\ pcall.pc = "returned" /\ pcall.fn = "buildIMTFromCiphertexts"
    /\ Len(pcall.arg) = 2
    /\ ~SameHashedBytes(pcall.arg[1], pcall.arg[2])
    /\ pcall.arg[1][1] # pcall.arg[2][1]

----------------------------------------------------------------------------
(* A changed ciphertext byte *)

\* C15 (its last clause, which the first one implies): when one byte of a
\* ciphertext was changed before proving, the leaf step on the altered
\* ciphertext never pushes an artifact that agrees with the artifact pushed
\* for the original in the circuit inputs and in the public inputs.
C15_NoIndistinguishableArtifact ==
    (tamper.pc = "proved" /\ tamper.leafAltered.status = "pushed") =>
        ~(/\ tamper.leaf.status = "pushed"
          /\ tamper.leafAltered.circuitInputs = tamper.leaf.circuitInputs
          /\ tamper.leafAltered.publicInputs = tamper.leaf.publicInputs)

----------------------------------------------------------------------------
(* decryptNote settles with null or with fields *)

\* the calls decryptNote makes, in order
DecryptSteps ==
    <<"reconstructPublicKey", "getPreaddress", "computeAddressSecret",
      "deriveEcdhSharedSecret", "deriveAesKeys", "decryptBufferCBC(header)",
      "decryptBufferCBC(body)">>

\* C16: decryptNote never rejects; when a step has failed it has returned
\* null, with no call made after the failed one; and it returns a list of
\* fields only after all of its calls were made and none failed.
C16_DecryptNeverThrows ==
    /\ dec.pc # "rejected"
    /\ dec.failedAt # "none" => (dec.pc = "returned" /\ dec.ret.isNull)
    /\ dec.pc = "returned" =>
          /\ dec.ret.isNull <=> dec.failedAt # "none"
          /\ ~dec.ret.isNull => dec.calls = DecryptSteps
    /\ \A k \in 1 .. Len(dec.calls) : dec.calls[k] = DecryptSteps[k]
    /\ dec.ret.isNull => dec.ret.fields = <<>>

\* the header cipher call failed on a buffer too short to hold a header
C16_Witness ==
    /\ dec.pc = "returned"
    /\ dec.failedAt = "header"
    /\ dec.ret.isNull
    /\ Len(dec.restBytes) < 17
    /\ Len(dec.calls) = 6

----------------------------------------------------------------------------
(* The codecs of decrypt.ts *)

\* C17: for a byte sequence b packed 31 bytes per field, unpackFieldsToBytes
\* of the packed buffer is b followed by fewer than 31 zero bytes; and for any
\* buffer, cut short or not, the output has 31 bytes for every complete
\* 32-byte field.
C17_UnpackRoundTrip ==
    (pcall.pc = "returned" /\ pcall.fn = "unpackFieldsToBytes") =>
        LET b == pcall.arg[1]
            cut == pcall.arg[2]
            packedBuffer == PackedBuffer(b, cut)
            out == pcall.ret
        IN  /\ Len(out) = CHUNK_LEN * (Len(packedBuffer) \div FIELD_LEN)
            /\ cut = 0 =>
                  /\ Len(out) >= Len(b)
                  /\ Len(out) - Len(b) < CHUNK_LEN
                  /\ \A k \in 1 .. Len(out) :
                        out[k] = IF k <= Len(b) THEN b[k] ELSE 0

\* a sequence of 32 bytes, packed into two fields, the second one padded
C17_Witness ==
    /\ pcall.pc = "returned" /\ pcall.fn = "unpackFieldsToBytes"
    /\ pcall.arg[2] = 0
    /\ Len(pcall.arg[1]) = CHUNK_LEN + 1
    /\ pcall.arg[1][CHUNK_LEN + 1] # 0
    /\ Len(pcall.ret) = 2 * CHUNK_LEN

\* C18: parseNotePlaintext returns null exactly for fewer than 4 fields;
\* otherwise owner, storageSlot and randomness are fields 1, 2 and 3 and
\* packedNote is the fields from index 4 on, in order.
C18_ParseNotePlaintext ==
    (pcall.pc = "returned" /\ pcall.fn = "parseNotePlaintext") =>
        LET plaintext == pcall.arg
            parsed == pcall.ret
        IN  /\ parsed.isNull <=> Len(plaintext) < 4
            /\ ~parsed.isNull =>
                  /\ parsed.owner = AztecAddressFromField(plaintext[2])
                  /\ parsed.storageSlot = plaintext[3]
                  /\ parsed.randomness = plaintext[4]
                  /\ Len(parsed.packedNote) = Len(plaintext) - 4
                  /\ \A k \in 1 .. Len(parsed.packedNote) :
                        parsed.packedNote[k] = plaintext[4 + k]

\* six fields, storage slot and randomness different, two note fields
C18_Witness ==
    /\ pcall.pc = "returned" /\ pcall.fn = "parseNotePlaintext"
    /\ Len(pcall.arg) = 6
    /\ pcall.arg[3] # pcall.arg[4]
    /\ pcall.arg[5] # pcall.arg[6]
    /\ ~pcall.ret.isNull
    /\ Len(pcall.ret.packedNote) = 2

----------------------------------------------------------------------------
(* The order of the steps of a prove() run *)

InitPcs ==
    <<"init_note", "init_summary", "init_preaddress", "init_secret", "init_zero",
      "init_return">>
LeafPcs == <<"decrypt", "leaf_exec", "leaf_prove", "leaf_verify", "leaf_vk">>
CombinePcs ==
    <<"boot_exec", "boot_prove", "boot_vk", "sum_exec", "sum_prove", "sum_verify",
      "sum_vk">>

IndexIn(q, x) == CHOOSE k \in 1 .. Len(q) : q[k] = x

\* where a run is: phase, level, index in the level, step on that index
Position(rec) ==
    IF rec.pc \in Range(InitPcs) THEN <<1, 0, 0, IndexIn(InitPcs, rec.pc)>>
    ELSE IF rec.pc \in Range(LeafPcs) THEN <<2, 0, rec.i, IndexIn(LeafPcs, rec.pc)>>
    ELSE IF rec.pc \in Range(CombinePcs)
    THEN <<3, rec.level, rec.i, IndexIn(CombinePcs, rec.pc)>>
    ELSE <<4, rec.level, 0, 0>>

RECURSIVE LexLess(_, _)
LexLess(a, b) ==
    /\ a # <<>>
    /\ \/ Head(a) < Head(b)
       \/ Head(a) = Head(b) /\ LexLess(Tail(a), Tail(b))

\* one step of the run in slot r
StepInOrder(r) ==
    LET a == run[r]
        b == run'[r]
    IN  a # b =>
          IF a.pc \in {"idle", "done", "error"}
          THEN \* only a new prove() call follows, which starts from scratch
               /\ b.pc \in {"init_note", "init_return"}
               /\ b = [RunIdle EXCEPT !.pc = b.pc]
               /\ hist'.runsStarted = hist.runsStarted + 1
          ELSE \/ b.pc = "error"
               \/ /\ b.pc # "idle"
                  /\ LexLess(Position(a), Position(b))
                  /\ Position(b)[1] - Position(a)[1] <= 1
                       \/ (Position(a)[1] = 2 /\ b.pc = "done" /\ Len(notes) = 1)
                  /\ \/ b.level = a.level
                     \/ /\ b.level = a.level + 1
                        /\ a.pc \in {"sum_verify", "sum_vk"}
                        /\ a.i + 2 >= Len(a.currentLevel)
                        /\ Len(b.currentLevel) = (Len(a.currentLevel) + 1) \div 2
                  /\ (Position(a)[1] = 3 /\ b.level = a.level /\ b.pc # "done")
                        => b.currentLevel = a.currentLevel
                  /\ (Position(a)[1] < 3 /\ Position(b)[1] >= 3) => b.level = 0

\* C19: a run goes through initialization, leaf proving, combining level 0,
\* combining level 1, ... and done in this order, every step later than the
\* one before it, the level growing by one at the end of each pass; a run
\* that has failed or returned makes no further step.
C19_PhasesInOrder == [][\A r \in Slots : StepInOrder(r)]_vars

\* five leaves combined in three passes
C19_Witness ==
    \E r \in Slots :
        /\ run[r].pc = "done"
        /\ run[r].level = 3
        /\ Len(notes) = 5

----------------------------------------------------------------------------
(* The order of the artifacts *)

\* what the leaf circuit returns for the note at a position of the input
LeafOutputs(k) ==
    NoteCircuit(prepareNoteCircuitInputs(decryptNote(notes[k]), notes[k]))

LeavesInOrder(rec) ==
    rec.pc \in Range(LeafPcs) =>
        /\ Len(rec.proofs) = rec.i
        /\ \A k \in 1 .. Len(rec.proofs) :
              /\ rec.proofs[k].publicInputs = LeafOutputs(k)
              /\ rec.proofs[k].proof.verified
        /\ rec.decryptCalls \in {rec.i, rec.i + 1}
        /\ rec.leafProofs \in {rec.i, rec.i + 1}
        /\ rec.leafProofs <= rec.decryptCalls
        /\ rec.pc = "decrypt" => (rec.decryptCalls = rec.i /\ rec.leafProofs = rec.i)

LevelsInOrder(rec) ==
    rec.pc \in Range(CombinePcs) =>
        LET n == Len(rec.currentLevel) IN
        /\ n = (Len(notes) + Pow2(rec.level) - 1) \div Pow2(rec.level)
        /\ rec.level = 0 =>
              \A k \in 1 .. n : rec.currentLevel[k].publicInputs = LeafOutputs(k)
        /\ 2 * Len(rec.nextLevel) = rec.i
        /\ rec.i < n
        /\ \A k \in 1 .. Len(rec.nextLevel) :
              LET left == rec.currentLevel[2 * k - 1]
                  hasRight == 2 * k <= n
                  parent == rec.nextLevel[k]
              IN  /\ parent.value =
                        left.value + (IF hasRight THEN rec.currentLevel[2 * k].value ELSE 0)
                  /\ parent.publicInputs[1] = parent.value
                  /\ parent.publicInputs[2] =
                        poseidon2Hash(left.publicInputs[2],
                                      IF hasRight
                                      THEN rec.currentLevel[2 * k].publicInputs[2]
                                      ELSE zeroHashes[rec.level + 1])
                  /\ parent.proof.verified

\* C20: leaf i is proved and verified before leaf i+1 is decrypted, the
\* level-0 list has the artifact of ciphertext k at position k, a level
\* being combined is the complete list of its level, and artifact k of the
\* next level is built from artifacts 2k and 2k+1 of the level.
C20_ArtifactsInOrder ==
    \A r \in Slots : LeavesInOrder(run[r]) /\ LevelsInOrder(run[r])

\* the second pair of level 1 is about to be combined, for five leaves of
\* which the first two differ
C20_Witness ==
    \E r \in Slots :
        /\ run[r].pc = "sum_exec"
        /\ run[r].level = 1
        /\ run[r].i = 2
        /\ Len(run[r].nextLevel) = 1
        /\ Len(notes) = 5
        /\ notes[1] # notes[2]

----------------------------------------------------------------------------
(* Calls outstanding on the circuit handles *)

\* the handle an invocation has a call outstanding on
OnHandle(rec) ==
    IF rec.pc = "leaf_exec" THEN "noteNoir"
    ELSE IF rec.pc \in {"leaf_prove", "leaf_verify", "leaf_vk"} THEN "noteBackend"
    ELSE IF rec.pc \in {"boot_exec", "sum_exec"} THEN "summaryNoir"
    ELSE IF rec.pc \in {"boot_prove", "boot_vk", "sum_prove", "sum_verify", "sum_vk"}
    THEN "summaryBackend"
    ELSE "none"

\* C21: no two invocations of prove() on the instance have a call outstanding
\* on the same handle at the same time.
C21_OneCallPerHandle ==
    \A r1, r2 \in DOMAIN run :
        (r1 # r2 /\ OnHandle(run[r1]) # "none") =>
            OnHandle(run[r1]) # OnHandle(run[r2])

----------------------------------------------------------------------------
(* The cached verification keys across runs *)

\* a run of the slot fails in this step
Fails(r) == run[r].pc # "error" /\ run'[r].pc = "error"

\* C22: the step in which a run fails leaves the four cached key values as
\* they are, a cached key value is never changed or cleared afterwards, and
\* a run never extracts a key that is cached: it waits for the leaf artifacts
\* only while the leaf key is missing and bootstraps only while the summary
\* key hash is missing.
C22_ErrorKeepsVkCache ==
    [][/\ \A r \in Slots : Fails(r) => UNCHANGED vkVars
       /\ leafVkAsFields # NULL =>
             (leafVkAsFields' = leafVkAsFields /\ leafVkHash' = leafVkHash)
       /\ summaryVkHash # NULL =>
             (summaryVkAsFields' = summaryVkAsFields /\ summaryVkHash' = summaryVkHash)
       /\ \A r \in Slots :
             /\ run[r].pc = "leaf_vk" => leafVkAsFields = NULL
             /\ run[r].pc \in {"boot_exec", "boot_prove", "boot_vk"}
                   => summaryVkHash = NULL
             /\ run[r].pc = "sum_vk" => summaryVkAsFields = NULL]_vars

\* the second run, after a first run that cached the leaf key and then
\* failed, has pushed its first leaf without extracting the key again
C22_Witness ==
    /\ hist.runsStarted = 2
    /\ hist.doneHashes = <<>>
    /\ Len(hist.leafVkFrom) = 1
    /\ leafVkAsFields # NULL
    /\ \E r \in Slots : run[r].pc = "decrypt" /\ run[r].i = 1

----------------------------------------------------------------------------
(* Initialization *)

Populated ==
    /\ noteNoir # NULL /\ noteBackend # NULL
    /\ summaryNoir # NULL /\ summaryBackend # NULL
    /\ addressSecret # NULL /\ zeroHashes # <<>>

----------------------------------------------------------------------------
(* The auditor's retrieval *)

\* the positions in the export of the secrets whose direction is inbound
InboundPositions ==
    {p \in 1 .. Len(aud.secrets) : aud.secrets[p].direction = "inbound"}

\* C24: tags are generated and the node is queried only for inbound secrets,
\* the results pushed so far are those of inbound secrets in export order,
\* each holding only its own notes, and the returned result has exactly one
\* entry per inbound secret.
C24_InboundOnly ==
    /\ \A c \in 1 .. Len(aud.tagCalls) : aud.tagCalls[c].secret \in InboundPositions
    /\ \A c \in 1 .. Len(aud.queries) : aud.queries[c].secret \in InboundPositions
    /\ \A c \in 2 .. Len(aud.tagCalls) :
          aud.tagCalls[c - 1].secret <= aud.tagCalls[c].secret
    /\ \A j \in 1 .. Len(aud.results) :
          /\ aud.results[j].secret \in InboundPositions
          /\ j > 1 => aud.results[j - 1].secret < aud.results[j].secret
          /\ Cardinality({p \in InboundPositions : p <= aud.results[j].secret}) = j
          /\ \A n \in 1 .. Len(aud.results[j].notes) :
                aud.results[j].notes[n].secret = aud.results[j].secret
    /\ aud.pc = "returned" => Len(aud.results) = Cardinality(InboundPositions)

\* an export of an outbound and then an inbound secret, returned with the
\* notes of the inbound one
C24_Witness ==
    /\ aud.pc = "returned"
    /\ Len(aud.secrets) = 2
    /\ aud.secrets[1].direction = "outbound"
    /\ aud.secrets[2].direction = "inbound"
    /\ Len(aud.results) = 1
    /\ aud.results[1].noteCount > 0

----------------------------------------------------------------------------
(* The shape of the tree *)

\* C25: a level being combined has n > 1 artifacts and lies below
\* ceil(log2 N); its pairs start at even indices and never yield more than
\* ceil(n/2) artifacts; a pair lacks its right child exactly when it is the
\* last pair of a level with an odd n; and a run that returns does so with
\* one artifact after exactly ceil(log2 N) levels, N >= 1.
C25_TreeShape ==
    \A r \in Slots :
        LET rec == run[r]
            n == Len(rec.currentLevel)
        IN  /\ rec.pc \in Range(CombinePcs) =>
                  /\ n > 1
                  /\ rec.level < TreeDepth(Len(notes))
                  /\ rec.i % 2 = 0 /\ rec.i < n
                  /\ Len(rec.nextLevel) < (n + 1) \div 2
                  /\ (RightOf(rec) = <<>>) <=> (rec.i = n - 1 /\ n % 2 = 1)
                  /\ rec.summaryInputs # <<>> =>
                        (rec.summaryInputs[1].proof_right.is_some <=> rec.i + 1 < n)
            /\ rec.pc = "done" =>
                  /\ Len(notes) >= 1
                  /\ n = 1
                  /\ rec.level = TreeDepth(Len(notes))

\* the last pair of a level of three artifacts, which has no right child
C25_Witness ==
    \E r \in Slots :
        /\ run[r].pc = "sum_prove"
        /\ Len(run[r].currentLevel) = 3
        /\ run[r].i = 2
        /\ ~run[r].summaryInputs[1].proof_right.is_some

----------------------------------------------------------------------------
(* The inputs of the summary circuit *)

\* the hash of an empty subtree of a height
RECURSIVE ZeroOfLevel(_)
ZeroOfLevel(level) ==
    IF level = 0 THEN FrZERO
    ELSE LET below == ZeroOfLevel(level - 1) IN poseidon2Hash(below, below)

\* C26: in the inputs of a combination the zero-leaf hint is present exactly
\* when the right child is absent and then is zeroHashes[level]; an absent
\* right child is replaced by as many zero fields as the left proof has and
\* by three zero public inputs, a present one gives its own proof and public
\* inputs.
C26_SummaryInputsShape ==
    (pcall.pc = "returned" /\ pcall.fn = "combineProofs") =>
        LET left == pcall.arg.left
            right == pcall.arg.right
            level == pcall.arg.level
            in == pcall.ret
        IN  /\ in.zero_leaf_hint.is_some <=> right = <<>>
            /\ in.proof_right.is_some <=> right # <<>>
            /\ in.public_inputs_right.is_some <=> right # <<>>
            /\ in.proof_left = left.proofAsFields
            /\ in.public_inputs_left = left.publicInputs
            /\ right = <<>> =>
                  /\ HexToField(in.zero_leaf_hint.value) = ZeroOfLevel(level)
                  /\ Len(in.proof_right.value) = Len(left.proofAsFields)
                  /\ \A k \in 1 .. Len(in.proof_right.value) :
                        HexToField(in.proof_right.value[k]) = 0
                  /\ Len(in.public_inputs_right.value) = 3
                  /\ \A k \in 1 .. 3 : HexToField(in.public_inputs_right.value[k]) = 0
            /\ right # <<>> =>
                  /\ in.proof_right.value = right[1].proofAsFields
                  /\ in.public_inputs_right.value = right[1].publicInputs

\* a left proof of three fields combined at level 2 without a right child
C26_Witness ==
    /\ pcall.pc = "returned" /\ pcall.fn = "combineProofs"
    /\ pcall.arg.right = <<>>
    /\ pcall.arg.level = 2
    /\ Len(pcall.arg.left.proofAsFields) = 3
    /\ Len(pcall.ret.proof_right.value) = 3

\* C29: for every ciphertext buffer, the 17 strings that
\* prepareNoteCircuitInputs passes to the leaf circuit denote, element for
\* element, the 17 fields that hashCiphertextToLeaf hashes.
C29_SameCiphertextFields ==
    (pcall.pc = "returned" /\ pcall.fn = "prepareNoteCircuitInputs") =>
        LET hashed == CiphertextFields(pcall.arg) IN
        /\ Len(pcall.ret) = MESSAGE_CIPHERTEXT_LEN
        /\ Len(hashed) = MESSAGE_CIPHERTEXT_LEN
        /\ \A i \in 1 .. MESSAGE_CIPHERTEXT_LEN : HexToField(pcall.ret[i]) = hashed[i]

\* a buffer one byte longer than the tag and one field: the second field is
\* that byte followed by zeros
C29_Witness ==
    /\ pcall.pc = "returned" /\ pcall.fn = "prepareNoteCircuitInputs"
    /\ Len(pcall.arg) = TAG_LEN + FIELD_LEN + 1
    /\ pcall.arg[TAG_LEN + FIELD_LEN + 1] # 0
    /\ HexToField(pcall.ret[2])[2][1] = pcall.arg[TAG_LEN + FIELD_LEN + 1]
    /\ HexToField(pcall.ret[2])[2][2] = 0

----------------------------------------------------------------------------
(* The verification key given to the summary circuit *)

\* the key of the circuit whose proofs a level holds
KeyOfLevel(level) ==
    IF level = 0
    THEN [fields |-> leafVkAsFields, hash |-> leafVkHash]
    ELSE [fields |-> summaryVkAsFields, hash |-> summaryVkHash]

\* C27: the inputs of every combination at level 0 carry the cached key of
\* the leaf circuit and its hash, those at level 1 and above the cached key
\* of the summary circuit and its hash; the inputs of a throwaway execution
\* carry the key of the combination that asked for it, which the real
\* execution that follows carries too.
C27_KeyOfLevelPassed ==
    \A r \in Slots :
        LET rec == run[r] IN
        /\ rec.summaryInputs # <<>> =>
              /\ rec.summaryInputs[1].verification_key = KeyOfLevel(rec.level).fields
              /\ rec.summaryInputs[1].vkey_hash = KeyOfLevel(rec.level).hash
              /\ rec.summaryInputs[1].verification_key # NULL
              /\ rec.summaryInputs[1].vkey_hash # NULL
              /\ rec.summaryInputs[1].verification_key = rec.vkAsFields
              /\ rec.summaryInputs[1].vkey_hash = rec.vkHash
        /\ rec.throwawayInputs # <<>> =>
              /\ rec.throwawayInputs[1].verification_key = KeyOfLevel(rec.level).fields
              /\ rec.throwawayInputs[1].vkey_hash = KeyOfLevel(rec.level).hash
              /\ rec.throwawayInputs[1].verification_key = rec.vkAsFields
              /\ rec.throwawayInputs[1].vkey_hash = rec.vkHash
              /\ rec.throwawayInputs[1].verification_key # NULL
        /\ rec.pc \in {"sum_exec", "sum_prove", "sum_verify", "sum_vk"}
              => rec.summaryInputs # <<>>
        /\ rec.pc \in {"boot_exec", "boot_prove", "boot_vk"} => rec.throwawayInputs # <<>>

\* a combination at level 1 is being executed with the summary key, in the
\* run whose first combination asked for the throwaway execution
C27_Witness ==
    \E r \in Slots :
        /\ run[r].pc = "sum_exec"
        /\ run[r].level = 1
        /\ run[r].bootAt = <<0, 0>>
        /\ run[r].summaryInputs[1].verification_key = summaryVkAsFields
        /\ summaryVkAsFields # leafVkAsFields

----------------------------------------------------------------------------
(* The running value of the artifacts *)

RECURSIVE DeclaredSum(_, _)
\* the sum of the values of the notes at positions lo .. hi of the batch
DeclaredSum(lo, hi) ==
    IF lo > hi THEN 0
    ELSE NoteValue(decryptNote(notes[lo])) + DeclaredSum(lo + 1, hi)

\* the value of the leaves under the k-th artifact of a level
SubtreeValue(level, k) ==
    LET first == (k - 1) * Pow2(level) + 1
        last == IF k * Pow2(level) < Len(notes) THEN k * Pow2(level) ELSE Len(notes)
    IN  DeclaredSum(first, last)

\* C28: the value of the k-th artifact of a level is the sum of the values
\* of the notes under it, positions (k-1)*2^level + 1 .. k*2^level of the
\* batch cut at its end: a leaf artifact has the value of its own note, an
\* artifact of the level being built the values of its one or two children,
\* and the artifact left when the run returns the sum over the whole batch.
C28_ValueOfSubtree ==
    \A r \in Slots :
        LET rec == run[r] IN
        /\ \A k \in 1 .. Len(rec.proofs) :
              /\ rec.proofs[k].value = SubtreeValue(0, k)
              /\ rec.proofs[k].value = NoteValue(decryptNote(notes[k]))
        /\ rec.pc \in Range(CombinePcs) \cup {"done"} =>
              /\ \A k \in 1 .. Len(rec.currentLevel) :
                    rec.currentLevel[k].value = SubtreeValue(rec.level, k)
              /\ \A k \in 1 .. Len(rec.nextLevel) :
                    /\ rec.nextLevel[k].value = SubtreeValue(rec.level + 1, k)
                    /\ rec.nextLevel[k].value =
                          rec.currentLevel[2 * k - 1].value
                            + (IF 2 * k <= Len(rec.currentLevel)
                               THEN rec.currentLevel[2 * k].value ELSE 0)
        /\ rec.pc = "done" =>
              /\ Len(rec.currentLevel) = 1
              /\ rec.currentLevel[1].value = DeclaredSum(1, Len(notes))

\* a level of three artifacts is being combined: the first parent has two
\* children of different values, the second will have a left child only
C28_Witness ==
    \E r \in Slots :
        /\ run[r].pc = "sum_exec"
        /\ run[r].level = 1
        /\ Len(run[r].currentLevel) = 3
        /\ Len(run[r].nextLevel) = 1
        /\ run[r].currentLevel[1].value # run[r].currentLevel[2].value
        /\ run[r].currentLevel[2].value > 0

----------------------------------------------------------------------------
(* The header and the body that decryptNote hands to the cipher *)

\* decryptNote has sliced the header, decrypted it and sliced the body
BodySliced == dec.pc \in {"body", "returned"} /\ dec.failedAt = "none"

\* a byte of the decrypted header, a missing one read as 0
HeaderByte(k) == IF k <= Len(dec.headerPlaintext) THEN dec.headerPlaintext[k] ELSE 0

\* the smaller of two numbers
Smaller(a, b) == IF a < b THEN a ELSE b

\* the buffer holds the n bytes of the unpacked bytes from an offset on
SliceOfRest(buf, offset, n) ==
    /\ Len(buf) = n
    /\ offset + n <= Len(dec.restBytes)
    /\ \A k \in 1 .. n : buf[k] = dec.restBytes[offset + k]

\* C30 as stated: the header ciphertext is the 16 unpacked bytes at offsets
\* 1..16, the declared length is 256*h[0] + h[1], and the body ciphertext is
\* the min(declared length, unpacked length - 17) bytes from offset 17.
C30_HeaderAndBodyAsStated ==
    BodySliced =>
        /\ SliceOfRest(dec.headerCiphertext, 1, 16)
        /\ dec.ciphertextLength = 256 * HeaderByte(1) + HeaderByte(2)
        /\ SliceOfRest(dec.bodyCiphertext, 17,
                       Smaller(dec.ciphertextLength, Len(dec.restBytes) - 17))

\* C30: the unpacked bytes are none or at least 31. When there are some, the
\* header ciphertext is the 16 bytes at offsets 1..16 and the body
\* ciphertext is the min(declared length, unpacked length - 17) bytes from
\* offset 17, all of them inside the unpacked bytes; when there are none,
\* both are empty. The declared length is 256*h[0] + h[1] of the decrypted
\* header h, a byte that h does not have counting as 0.
C30_HeaderAndBody ==
    /\ dec.pc \notin {"idle", "called"} =>
          (dec.restBytes = <<>> \/ Len(dec.restBytes) >= FIELD_LEN - 1)
    /\ dec.pc = "header" /\ dec.failedAt = "none" =>
          IF dec.restBytes = <<>>
          THEN dec.headerCiphertext = <<>>
          ELSE SliceOfRest(dec.headerCiphertext, 1, 16)
    /\ BodySliced =>
          /\ dec.ciphertextLength = 256 * HeaderByte(1) + HeaderByte(2)
          /\ IF dec.restBytes = <<>>
             THEN dec.headerCiphertext = <<>> /\ dec.bodyCiphertext = <<>>
             ELSE /\ SliceOfRest(dec.headerCiphertext, 1, 16)
                  /\ SliceOfRest(dec.bodyCiphertext, 17,
                                 Smaller(dec.ciphertextLength, Len(dec.restBytes) - 17))

\* a body cut by the declared length, shorter than what follows the header
C30_Witness ==
    /\ BodySliced
    /\ dec.ciphertextLength = 64
    /\ Len(dec.restBytes) - 17 > 64
    /\ Len(dec.bodyCiphertext) = 64
    /\ dec.bodyCiphertext[1] # dec.headerCiphertext[16]

\* a body cut by the end of the unpacked bytes, shorter than declared
C30_WitnessCutAtEnd ==
    /\ BodySliced
    /\ dec.ciphertextLength > Len(dec.restBytes) - 17
    /\ Len(dec.bodyCiphertext) = Len(dec.restBytes) - 17
    /\ Len(dec.bodyCiphertext) > 0

----------------------------------------------------------------------------
(* The fields decryptNote makes of the decrypted body *)

\* decryptNote has returned a list of fields
FieldsReturned == dec.pc = "returned" /\ ~dec.ret.isNull

\* the chunk of the body a field stands for, zero-padded on the right
PaddedChunk(k) ==
    PaddedCopy(BufSlice(dec.bodyPlaintext, (k - 1) * FIELD_LEN, k * FIELD_LEN), FIELD_LEN)

\* C31: the fields decryptNote returns are one for every 32 bytes of the
\* decrypted body, a short final chunk included: there are
\* ceil(bodyLength / 32) of them and the k-th is the field of the k-th
\* chunk, zero-padded on the right.
C31_EveryBodyByteInAField ==
    FieldsReturned =>
        /\ Len(dec.ret.fields) = (Len(dec.bodyPlaintext) + FIELD_LEN - 1) \div FIELD_LEN
        /\ \A k \in 1 .. Len(dec.ret.fields) :
              dec.ret.fields[k] = FrFromBuffer(PaddedChunk(k))

----------------------------------------------------------------------------
(* The two identifiers in the first plaintext field *)

ParseReturned ==
    pcall.pc = "returned" /\ pcall.fn = "parseNotePlaintext" /\ ~pcall.ret.isNull

\* a number given by its base-2^64 digits is below 2^64
Below2To64(digits) == \A k \in 1 .. (Len(digits) - 1) : digits[k] = 0

\* hi * 2^64 + lo, for lo below 2^64
TimesTwoTo64Plus(hi, lo) == Append(hi, lo)

----------------------------------------------------------------------------
(* The keys deriveAesKeys makes of the shared secret *)

DeriveReturned == pcall.pc = "returned" /\ pcall.fn = "deriveAesKeys"

\* a buffer is the low 16 bytes of the 32-byte hash for a separator, reversed
ReversedLowHalf(buf, separator) ==
    LET hashBytes ==
            HashToBuffer(poseidon2HashWithSeparator(pcall.arg.sharedSecret, separator))
    IN  /\ Len(buf) = 16
        /\ \A i \in 0 .. 15 : buf[i + 1] = hashBytes[(31 - i) + 1]

----------------------------------------------------------------------------
(* The zero-leaf hint at every level *)

\* combineProofs has built its inputs, or has thrown while building them
InputsAsked == pcall.fn = "combineProofs" /\ pcall.pc \in {"returned", "thrown"}

\* C34: at every level at which a combination has no right child, the
\* inputs are built and the zero-leaf hint is the hash of the empty subtree
\* of that level, also at a level past the depth the table was given at
\* initialization.
C34_HintDefinedAtEveryLevel ==
    (InputsAsked /\ pcall.arg.right = <<>>) =>
        /\ pcall.pc = "returned"
        /\ HexToField(pcall.ret.zero_leaf_hint.value) = ZeroOfLevel(pcall.arg.level)

\* C34, within the table: at every level up to the depth of initialize a
\* combination without a right child is given the hash of the empty subtree
\* of the level; past it, the combination throws.
C34_HintDefinedWithinTable ==
    (InputsAsked /\ pcall.arg.right = <<>>) =>
        IF pcall.arg.level <= INIT_ZERO_DEPTH
        THEN /\ pcall.pc = "returned"
             /\ HexToField(pcall.ret.zero_leaf_hint.value) = ZeroOfLevel(pcall.arg.level)
        ELSE pcall.pc = "thrown"

----------------------------------------------------------------------------
(* The batches of processSecret *)

\* the retrieval has returned or has been rejected
AuditorDone == aud.pc \in {"returned", "rejected"}

\* the batches asked of generateTags so far: first of a secret at
\* startIndex, later ones right after the one before, each of
\* min(batchSize, remaining) indices below startIndex + maxIndices, and a
\* later one only when the one before had a tag with logs
BatchesInOrder ==
    LET end == aud.startIndex + aud.maxIndices IN
    /\ Len(aud.queries) <= Len(aud.tagCalls)
    /\ Len(aud.answers) <= Len(aud.queries)
    /\ Len(aud.tagCalls) <= Len(aud.answers) + 1
    /\ \A j \in 1 .. Len(aud.tagCalls) :
          LET call == aud.tagCalls[j]
              remaining == end - call.index
              first == j = 1 \/ aud.tagCalls[j - 1].secret # call.secret
          IN  /\ call.index >= aud.startIndex
              /\ call.index < end
              /\ call.count = (IF aud.batchSize < remaining THEN aud.batchSize ELSE remaining)
              /\ call.index + call.count <= end
              /\ first => call.index = aud.startIndex
              /\ ~first =>
                    /\ call.index = aud.tagCalls[j - 1].index + aud.tagCalls[j - 1].count
                    /\ aud.tagCalls[j - 1].count = aud.batchSize
                    /\ \E t \in 1 .. Len(aud.answers[j - 1]) : aud.answers[j - 1][t] > 0
              /\ j > 1 => aud.tagCalls[j - 1].secret <= call.secret
    /\ \A j \in 1 .. Len(aud.queries) :
          /\ aud.queries[j].secret = aud.tagCalls[j].secret
          /\ Len(aud.queries[j].tags) = aud.tagCalls[j].count
          /\ \A t \in 1 .. Len(aud.queries[j].tags) :
                aud.queries[j].tags[t] = aud.tagCalls[j].index + t - 1
    /\ \A j \in 1 .. Len(aud.answers) :
          /\ Len(aud.answers[j]) = aud.tagCalls[j].count
          /\ (\A t \in 1 .. Len(aud.answers[j]) : aud.answers[j][t] = 0) =>
                (j < Len(aud.tagCalls) => aud.tagCalls[j + 1].secret # aud.tagCalls[j].secret)

\* every note, pending or in a result, has the index of the tag whose logs
\* it was mapped from
NotesHaveTagIndex ==
    /\ \A n \in 1 .. Len(aud.notes) : aud.notes[n].tagIndex = aud.notes[n].tag
    /\ \A j \in 1 .. Len(aud.results) :
          \A n \in 1 .. Len(aud.results[j].notes) :
              /\ aud.results[j].notes[n].tagIndex = aud.results[j].notes[n].tag
              /\ aud.results[j].notes[n].tagIndex >= aud.startIndex
              /\ aud.results[j].notes[n].tagIndex < aud.startIndex + aud.maxIndices

\* C35: for each secret the tag indices are asked for in consecutive
\* batches from startIndex, each of min(batchSize, remaining) indices, none
\* at or beyond startIndex + maxIndices; no batch follows one in which every
\* tag had no logs; each note has the tagIndex of the tag that matched it;
\* and the retrieval ends, by returning or by rejecting.
C35_BatchesAndTermination ==
    /\ [](BatchesInOrder /\ NotesHaveTagIndex)
    /\ <>AuditorDone

\* a secret scanned in two batches, the second cut to the one index that
\* remained, with a note found by the second tag of the first batch
C35_Witness ==
    /\ aud.pc = "returned"
    /\ aud.batchSize = 2 /\ aud.maxIndices = 3
    /\ Len(aud.tagCalls) >= 2
    /\ aud.tagCalls[1].secret = aud.tagCalls[2].secret
    /\ aud.tagCalls[2].count = 1
    /\ \E j \in 1 .. Len(aud.results) :
          \E n \in 1 .. Len(aud.results[j].notes) :
              aud.results[j].notes[n].tagIndex = aud.startIndex + 1

----------------------------------------------------------------------------
(* Batches of no note and of one note *)

\* C36: with no note in the batch no run returns a result: nothing is
\* decrypted or proved, no combination and no throwaway execution runs, a
\* run past initialization has failed with a TypeError, while
\* buildIMTFromCiphertexts gives the zero root for the same list.
C36_EmptyBatchFails ==
    notes = <<>> =>
        /\ buildIMTFromCiphertexts(notes) = FrZERO
        /\ \A r \in Slots :
              LET rec == run[r] IN
              /\ rec.pc # "done" /\ rec.result = <<>>
              /\ rec.pc \in {"idle", "error"} \cup Range(InitPcs)
              /\ rec.pc = "error" => rec.error = "TypeError"
              /\ rec.decryptCalls = 0 /\ rec.leafProofs = 0
              /\ rec.summaryExecs = 0 /\ rec.bootAt = <<>>
              /\ rec.proofs = <<>> /\ rec.currentLevel = <<>> /\ rec.nextLevel = <<>>
        /\ leafVkAsFields = NULL /\ summaryVkAsFields = NULL /\ summaryVkHash = NULL

\* a second prove() over no note has failed like the first
C36_Witness ==
    /\ notes = <<>>
    /\ hist.runsStarted = 2
    /\ \E r \in Slots : run[r].pc = "error" /\ run[r].error = "TypeError"
    /\ zeroHashes # <<>>

\* C37: with exactly one note in the batch no summary circuit execution and
\* no throwaway execution is made and the summary key stays uncached; the
\* result has the proof of the leaf artifact, proved by the leaf circuit and
\* verified, and (sum, root, vkeyHash) are the leaf's value, its leaf
\* commitment and the key hash the leaf circuit declares.
C37_SingleNoteIsTheLeaf ==
    Len(notes) = 1 =>
        /\ summaryVkAsFields = NULL /\ summaryVkHash = NULL
        /\ \A r \in Slots :
              LET rec == run[r] IN
              /\ rec.summaryExecs = 0 /\ rec.bootAt = <<>>
              /\ rec.pc \notin Range(CombinePcs)
              /\ rec.summaryInputs = <<>> /\ rec.throwawayInputs = <<>>
              /\ rec.nextLevel = <<>>
              /\ rec.pc = "done" =>
                    /\ Len(rec.currentLevel) = 1
                    /\ rec.result[1].proof = rec.currentLevel[1].proof
                    /\ rec.result[1].proof.circuit = "note"
                    /\ rec.result[1].proof.verified
                    /\ rec.result[1].proof.out = LeafOutputs(1)
                    /\ rec.result[1].publicInputs.sum = NoteValue(decryptNote(notes[1]))
                    /\ rec.result[1].publicInputs.root = hashCiphertextToLeaf(notes[1])
                    /\ rec.result[1].publicInputs.vkeyHash = LEAF_DECLARED_VKEY
                    /\ rec.result[1].publicInputs.root = buildIMTFromCiphertexts(notes)
                    /\ rec.decryptCalls = 1 /\ rec.leafProofs = 1

\* a second prove() over the one note has returned, the leaf key cached and
\* the summary key not
C37_Witness ==
    /\ Len(notes) = 1
    /\ hist.runsStarted = 2
    /\ \E r \in Slots : run[r].pc = "done"
    /\ leafVkAsFields # NULL
    /\ summaryVkAsFields = NULL

----------------------------------------------------------------------------
(* What the leaf hash of a ciphertext depends on *)

\* the ciphertext with its tag bytes changed
TagChanged(c) ==
    [k \in 1 .. Len(c) |-> IF k <= TAG_LEN THEN (c[k] + 1) % 256 ELSE c[k]]

\* the ciphertext with its bytes at offsets of 576 and beyond changed, and
\* with bytes added there
BeyondChanged(c) ==
    LET hashedEnd == TAG_LEN + MESSAGE_CIPHERTEXT_LEN * FIELD_LEN IN
    {[k \in 1 .. Len(c) |-> IF k > hashedEnd THEN (c[k] + 1) % 256 ELSE c[k]]}
    \cup (IF Len(c) >= hashedEnd THEN {c \o <<9>>, BufSlice(c, 0, hashedEnd)} ELSE {})

\* the ciphertext without its trailing zero bytes
StripZeros(c) ==
    LET nonZero == {k \in 1 .. Len(c) : c[k] # 0} IN
    IF nonZero = {} THEN <<>>
    ELSE SubSeq(c, 1, CHOOSE k \in nonZero : \A j \in nonZero : j <= k)

\* the ciphertext with zero bytes added at its end, and without those it has
ZeroTrailed(c) ==
    {c \o [k \in 1 .. m |-> 0] : m \in {1, FIELD_LEN, MESSAGE_CIPHERTEXT_LEN * FIELD_LEN}}
    \cup {StripZeros(c)}

\* the ciphertexts that differ from c only in the tag, only at offsets of 576
\* and beyond, or only by trailing zero bytes
DifferOutsideHashed(c) == {TagChanged(c)} \cup BeyondChanged(c) \cup ZeroTrailed(c)

\* C38: the leaf hash returned for a ciphertext is the leaf hash of every
\* ciphertext that differs from it only in the 32-byte tag, only at offsets
\* of 576 and beyond, or only by trailing zero bytes; and the root returned
\* for a list is the root of the list with one ciphertext replaced, at the
\* same position, by the one with another tag or with a zero byte added
\* past offset 575.
C38_HashOfBytes32To575 ==
    /\ (pcall.pc = "returned" /\ pcall.fn = "hashCiphertextToLeaf") =>
          \A b \in DifferOutsideHashed(pcall.arg) :
              /\ SameHashedBytes(pcall.arg, b)
              /\ hashCiphertextBufferToLeaf(b) = pcall.ret
    /\ (pcall.pc = "returned" /\ pcall.fn = "buildIMTFromCiphertexts") =>
          \A i \in 1 .. Len(pcall.arg) :
              \A b \in {TagChanged(pcall.arg[i]), pcall.arg[i] \o <<0>>} :
                  buildIMTFromCiphertextBuffers([pcall.arg EXCEPT ![i] = b]) = pcall.ret

\* the hash of a ciphertext of 33 bytes, whose one hashed byte is not 0:
\* changing the tag, and adding zero bytes, gives other ciphertexts
C38_Witness ==
    /\ pcall.pc = "returned" /\ pcall.fn = "hashCiphertextToLeaf"
    /\ Len(pcall.arg) = TAG_LEN + 1
    /\ pcall.arg[TAG_LEN + 1] # 0
    /\ TagChanged(pcall.arg) # pcall.arg
    /\ pcall.ret # hashCiphertextBufferToLeaf(<<>>)

\* the root of two ciphertexts longer than 576 bytes
C38_WitnessRoot ==
    /\ pcall.pc = "returned" /\ pcall.fn = "buildIMTFromCiphertexts"
    /\ Len(pcall.arg) = 2
    /\ Len(pcall.arg[2]) > TAG_LEN + MESSAGE_CIPHERTEXT_LEN * FIELD_LEN
    /\ pcall.arg[1] # pcall.arg[2]

----------------------------------------------------------------------------
(* What initialize has stored when leaf proving starts *)

\* C39: whenever an invocation of prove() is in leaf proving, the two
\* circuit handles, the two backends, the address secret and the zero-hash
\* table of the instance are populated, also while another invocation on
\* the instance is still inside initialize.
C39_PopulatedAtLeafProving ==
    \A r \in DOMAIN run :
        run[r].pc \in Range(LeafPcs) =>
            /\ noteNoir # NULL /\ summaryNoir # NULL
            /\ noteBackend # NULL /\ summaryBackend # NULL
            /\ addressSecret # NULL
            /\ zeroHashes # <<>>

====
